---- MODULE Spec2Model ----
(***************************************************************************)
(* Instapod: the run scheduler (scheduler.ts), the pipeline child process  *)
(* (pipeline-runner.ts), the worker pool and the per-item pipeline         *)
(* (worker.ts) and the state store (state.ts).                             *)
(*                                                                         *)
(* Processes.  The server process holds the flag isRunning and starts one  *)
(* pipeline child per accepted trigger.  Every Node process has one event  *)
(* loop: a continuation that is runnable in the microtask queue runs       *)
(* before any I/O callback of the same process, so I/O completions of a    *)
(* process are enabled only while no continuation of it is runnable        *)
(* (Busy).                                                                 *)
(*                                                                         *)
(* Time.  new Date() is modelled by Now, the number of runs started so     *)
(* far: the clock advances between triggers.  lastRun = 0 stands for null. *)
(*                                                                         *)
(* The locals of a run (queue, running, the promises) and the memory of    *)
(* its process are gone when the run ends: they are reset then.            *)
(*                                                                         *)
(* Specifications.  Spec, SpecFair and SpecLegacy are the server with its  *)
(* runs, where a save of the state store is one step.  SpecStore is the    *)
(* state store at the grain of its file operations, SpecSort the episode   *)
(* list, SpecTranslator one call of the translator (translator.ts).  Each  *)
(* leaves the variables of the others at their initial values.             *)
(***************************************************************************)
EXTENDS Integers, Sequences, FiniteSets, TLC

\* ---- bounds
MaxItems == 3
MaxRuns == 2
MaxStoreIds == 2
MaxEpisodes == 3
MaxChunks == 2
MaxText == 5
MaxParts == 2
MaxTitle == 2
MaxTags == 2
MaxList == 1
MaxEnv == 1
MaxTemplate == 2
\* Steps of the clock of the admin server, of CLEANUP_INTERVAL_MS each, and
\* the value at which the counter of login attempts stops being bumped.
MaxTicks == 4
MaxCount == 6
\* Bytes the pipeline child writes to one of its streams.
MaxOutput == 5

\* ---- program constants
MAX_CONCURRENCY == 2
MaxAttempts == 3
BackoffBaseMs == 1000

Ids == 1..MaxItems
RunIds == 1..MaxRuns
\* StateManager instances: 0 is the server's, r is the one of run r's child.
Instances == 0..MaxRuns

VARIABLES
    entry,      \* which main() is the process entry: "index" | "legacy"
    translate,  \* config.translation.api_key is set
    booted,     \* main() has run
    isRunning,  \* scheduler.ts: let isRunning
    nextRun,    \* id of the next run to start; Now = nextRun - 1
    src,        \* src[r]: the trigger that started run r
    cpc,        \* cpc[r]: where run r is; closed_*: its handler has resumed
    mem,        \* mem[i]: StateManager.state of instance i
    disk,       \* state.json
    bookmarks,  \* bookmarks[r]: ids the listing of run r returned
    queue,      \* queue[r]: worker.ts queue
    running,    \* running[r]: worker.ts running (the items of the promises)
    idx,        \* idx[r]: the i of the removal loop
    task,       \* task[r][id]: stage of processBookmark(id) in run r
    log,        \* the last line the scheduler logged
    failedBefore, \* history: ids whose pipeline failed in the run that ended last
    \* -- the state store at the grain of its file operations (state.ts)
    file,       \* state.json
    tmpFile,    \* state.json.tmp
    sm,         \* sm[i]: StateManager i: is it constructed, and its this.state
    spos,       \* where the writer is in save(): "idle" | "written"
    pending,    \* the bookmarkId of the addProcessed that is saving, 0: none
    ret,        \* what the last StateManager call returned
    uncommitted, \* history: ids whose addProcessed threw and never succeeded
    \* -- the episode list (state.ts getProcessedBookmarks)
    eps,        \* processedBookmarks as a list of entries in insertion order
    listed,     \* what the last getProcessedBookmarks returned
    \* -- one call of the translator (translator.ts)
    tcall,      \* the call: function, config.skip_if_same, target_language, text
    tphase,     \* "idle" | "request" | "sleep" | "returned" | "threw"
    chunk,      \* translateText: the chunk being translated
    attempt,    \* callChatCompletions: the loop variable
    requests,   \* fetch calls made by the current callChatCompletions
    total,      \* fetch calls made by the whole call
    delays,     \* the delays the current callChatCompletions has slept
    tresult,    \* what the call returned
    lastError,  \* callChatCompletions: let lastError
    failures,   \* history: the failure of each attempt of this callChatCompletions
    item,       \* the processBookmark that makes the calls (worker.ts:116-144)
    \* -- translateText over a long body (translator.ts:48-56, :139-159)
    text,       \* the body
    chunkList,  \* translateText: const chunks, what splitIntoChunks returned
    sent,       \* the user contents of the requests made, in order
    translated, \* translateText: const translated
    joined,     \* what translateText returned
    cphase,     \* "idle" | "loop" | "returned" | "threw"
    \* -- one call of synthesize and its tts-worker child (tts.ts, feed.ts:81-171)
    sphase,     \* synthesize: "idle" | "spawned" | "resolved" | "rejected"
    wpc,        \* the worker: "none" | "synth" | "concat" | "cleanup" | "stat" | "exited"
    nChunks,    \* textChunks.length
    partSizes,  \* the sizes of the chunk files written, in order
    partFiles,  \* the indexes N of the .partN.mp3 files that exist
    unlinkFailed, \* history: the indexes whose unlink threw
    outSize,    \* the size of the file at outputPath, -1: no file
    stdout,     \* what the worker wrote to its stdout: a size, -1: nothing
    exitCode,   \* the code of the close event
    sresult,    \* what the promise of synthesize settled with
    prevResult, \* history: the duration an earlier call resolved with
    \* -- audio names (tts.ts generateFilename)
    fname1,     \* the id, the slug and the name of a call of generateFilename
    fname2,     \* those of a later call
    \* -- the admin route POST /api/trigger (part_003:138-143)
    resp,       \* the body of the last response of the route, "none": no request yet
    \* -- the discovery of a run (worker.ts:19-72)
    dphase,     \* runPipeline: "idle" | "listing" | "await" | "returned" | "rejected"
    tagCount,   \* config.filters.tags.length
    tagIdx,     \* the tags listed so far
    taggedBookmarks, \* worker.ts:29, while in scope; without tags, what
                \* getBookmarks() returned
    matched,    \* history: the ids the listings of this run returned
    relisted,   \* history: the ids more than one listing of this run returned
    dbookmarks, \* worker.ts:24, let bookmarks
    dqueue,     \* worker.ts:64, queue
    drunning,   \* worker.ts:65, running: the ids of the items dispatched
    dsettled,   \* the positions of running whose processBookmark has settled
    processedIds, \* the keys of the persisted episodes
    startProcessed, \* history: processedIds when the run started
    listFailed, \* history: a listing of this run failed
    \* -- startup with a configuration (config.ts, index.ts main)
    cfgFile,    \* the file at CONFIG_PATH
    cfgEnv,     \* process.env, the variables of the required fields
    loaded,     \* what loadConfig returned or threw
    mphase,     \* the process: "off" | "serving" | "exited"
    started,    \* what main() has started
    \* -- the system prompt of a translation request (translator.ts:77-107)
    pcfg,       \* the call: isTitle and config.title_prompt or text_prompt, target_language
    pphase,     \* "idle" | "request" | "returned" | "threw"
    pattempt,   \* callChatCompletions: the loop variable
    psent,      \* the system contents of the requests made, in order
    \* -- the spoken text of an item (worker.ts:108-139, parser.ts)
    article,     \* worker.ts:108, what parseArticle returned
    aconf,      \* config.translation.api_key is set
    aphase,     \* processBookmark: "idle" | "title" | "body" | "synth" | "done" | "failed"
    translatedTitle, \* worker.ts:112
    textForTTS, \* worker.ts:113
    synthText,  \* the text synthesize was called with
    episode,    \* the title of the Episode committed
    \* -- the settled check of the worker pool (worker.ts:74-87), by microtask
    pool,       \* running: the state of each promise, "pending" | "fulfilled"
    ri,         \* the i of the removal loop, a position of running; 0: not in the loop
    thenP,      \* running[i].then(() => true): "none" | "pending" | "true"
    catchP,     \* (...).catch(() => true): "none" | "pending" | "true"
    raceP,      \* Promise.race([...]): "none" | "pending" | "true" | "false"
    microtasks, \* the microtask queue of the process
    was,        \* history: the state of running[i] when its check began
    lastCheck,  \* history: `was` and `settled` of the check that ended last
    \* -- the split of the tts-worker (feed.ts:92, :130-166)
    ttsText,    \* feed.ts:88, text
    textChunks, \* feed.ts:92, what splitTextForTTS returned; <<>>: not called
    \* -- the admin server: guard, login, setup (part_001)
    adminConfig,    \* config.admin: [password, session_secret]; <<>>: not set
    clock,          \* Date.now(), in ms since the server started
    loginAttempts,  \* part_001:233, ip -> [count, firstAttempt]
    compared,       \* history: per ip, the logins of this window that got to :163
    areq,           \* the last request
    ares,           \* and its response
    \* -- the config routes of the admin API (part_003:41-93)
    appConfig,  \* what getConfig() returns: section -> JSON value
    cres,       \* the last response of the two routes
    \* -- the capture of a stream of the pipeline child (scheduler.ts:53-86)
    childOutput,    \* history: the bytes the child writes to the stream
    delivered,      \* how many of them the data events have carried
    streamState,    \* "none" | "open" | "ended"
    buffer,         \* scheduler.ts:60
    entries,        \* pipeline-runner.ts:41, the messages of the log entries
    \* -- the audio route of the server (server.ts:55-74)
    audioReq,   \* req.params.filename of the last request; <<>>: none yet
    audioRes    \* the status of its response

pipelineVars == <<entry, translate, booted, isRunning, nextRun, src, cpc, mem,
                  disk, bookmarks, queue, running, idx, task, log, failedBefore>>

storeVars == <<file, tmpFile, sm, spos, pending, ret, uncommitted>>

sortVars == <<eps, listed>>

\* What the actions of the pipeline leave alone.
translatorVars ==
    <<tcall, tphase, chunk, attempt, requests, total, delays, tresult,
      lastError, failures, item>>

chunkVars == <<text, chunkList, sent, translated, joined, cphase>>

\* The variables of the specifications of single functions.
synthVars == <<sphase, wpc, nChunks, partSizes, partFiles, unlinkFailed,
               outSize, stdout, exitCode, sresult, prevResult>>

nameVars == <<fname1, fname2>>

httpVars == <<resp>>

discVars == <<dphase, tagCount, tagIdx, taggedBookmarks, matched, relisted,
              dbookmarks,
              dqueue, drunning, dsettled, processedIds, startProcessed,
              listFailed>>

confVars == <<cfgFile, cfgEnv, loaded, mphase, started>>

promptVars == <<pcfg, pphase, pattempt, psent>>

announceVars == <<article, aconf, aphase, translatedTitle, textForTTS, synthText,
                  episode>>

raceVars == <<pool, ri, thenP, catchP, raceP, microtasks, was, lastCheck>>

ttsVars == <<ttsText, textChunks>>

adminVars == <<adminConfig, clock, loginAttempts, compared, areq, ares>>

configApiVars == <<appConfig, cres>>

captureVars == <<childOutput, delivered, streamState, buffer, entries>>

audioVars == <<audioReq, audioRes>>

midVars == <<chunkVars, synthVars, nameVars, discVars, confVars>>

lateVars ==
    <<promptVars, announceVars, raceVars, ttsVars, adminVars, configApiVars, captureVars, audioVars>>

moreVars == <<midVars, lateVars>>

\* What the actions of the pipeline leave alone, but for the admin route.
notPipeline == <<storeVars, sortVars, translatorVars, moreVars>>

others == <<notPipeline, httpVars>>

notStore == <<pipelineVars, sortVars, translatorVars, moreVars, httpVars>>

notSort == <<pipelineVars, storeVars, translatorVars, moreVars, httpVars>>

notTranslator == <<pipelineVars, storeVars, sortVars, moreVars, httpVars>>

\* The variables of the server and of the functions specified before.
baseVars == <<pipelineVars, storeVars, sortVars, translatorVars, httpVars>>

notChunks == <<baseVars, synthVars, nameVars, discVars, confVars,
              lateVars>>

notSynth == <<baseVars, chunkVars, nameVars, discVars, confVars,
              lateVars>>

notNames == <<baseVars, chunkVars, synthVars, discVars, confVars,
              lateVars>>

notDiscovery == <<baseVars, chunkVars, synthVars, nameVars, confVars,
              lateVars>>

notConfig == <<baseVars, chunkVars, synthVars, nameVars, discVars,
              lateVars>>

\* What the actions of each later specification leave alone.
notPrompt ==
    <<baseVars, midVars, announceVars, raceVars, ttsVars, adminVars, configApiVars, captureVars, audioVars>>

notAnnounce ==
    <<baseVars, midVars, promptVars, raceVars, ttsVars, adminVars, configApiVars, captureVars, audioVars>>

notRace ==
    <<baseVars, midVars, promptVars, announceVars, ttsVars, adminVars, configApiVars, captureVars, audioVars>>

notTts ==
    <<baseVars, midVars, promptVars, announceVars, raceVars, adminVars, configApiVars, captureVars, audioVars>>

notAdmin ==
    <<baseVars, midVars, promptVars, announceVars, raceVars, ttsVars, configApiVars, captureVars, audioVars>>

notConfigApi ==
    <<baseVars, midVars, promptVars, announceVars, raceVars, ttsVars, adminVars, captureVars, audioVars>>

notCapture ==
    <<baseVars, midVars, promptVars, announceVars, raceVars, ttsVars, adminVars, configApiVars, audioVars>>

notAudio ==
    <<baseVars, midVars, promptVars, announceVars, raceVars, ttsVars, adminVars, configApiVars, captureVars>>

vars == <<pipelineVars, others>>

\* ---- state store ---------------------------------------------------------

Absent == [bookmarkId |-> 0, title |-> "", pubDate |-> 0]

EMPTY_STATE == [processedBookmarks |-> [i \in Ids |-> Absent], lastRun |-> 0]

Keys(st) == {i \in Ids : st.processedBookmarks[i] # Absent}

Now == nextRun - 1

isProcessedAlwaysFalse(st, id) == FALSE

isProcessed(st, id) == id \in Keys(st)

\* addProcessed before save(): the in-memory aggregate after the assignment.
addProcessedMem(st, ep) ==
    [processedBookmarks |-> [st.processedBookmarks EXCEPT ![ep.bookmarkId] = ep],
     lastRun |-> Now]

updateLastRunMem(st) == [st EXCEPT !.lastRun = Now]

\* save(): the file is replaced by the whole in-memory aggregate, or the write
\* throws and the file is left as it was.
save(st, ok) == IF ok THEN st ELSE disk

\* ---- per-item pipeline ---------------------------------------------------

\* "failed": a step of worker.ts:107-129 threw; "fail_save": addProcessed threw.
Failed == {"failed", "fail_save"}
Active == {"fetch", "title", "body", "synth"}
Stages == {"none", "done"} \cup Active \cup Failed

Settled(stage) == stage \in Failed \cup {"done"}

Episode(id) ==
    [bookmarkId |-> id,
     title |-> IF translate THEN "translated" ELSE "original",
     pubDate |-> Now]

\* ---- worker pool ---------------------------------------------------------

SeqOf(S) ==
    LET RECURSIVE Asc(_)
        Asc(T) == IF T = {} THEN <<>>
                  ELSE LET m == CHOOSE x \in T : \A y \in T : x <= y
                       IN <<m>> \o Asc(T \ {m})
    IN Asc(S)

Remove(s, i) == SubSeq(s, 1, i - 1) \o SubSeq(s, i + 1, Len(s))

CanDispatchUnbounded(run, q) == Len(q) > 0

\* worker.ts:68, the inner while's condition.
CanDispatch(run, q) == Len(run) < MAX_CONCURRENCY /\ Len(q) > 0

\* worker.ts:68-72: start queued items while a slot is free.  processBookmark
\* runs synchronously up to its first await, the fetch.
RECURSIVE Fill(_, _, _)
Fill(q, run, tk) ==
    IF CanDispatch(run, q)
    THEN Fill(Tail(q), Append(run, Head(q)), [tk EXCEPT ![Head(q)] = "fetch"])
    ELSE [queue |-> q, running |-> run, task |-> tk]

SettledCheckIntended(stage) == Settled(stage)

\* worker.ts:79-82.  Promise.race([p.then(..).catch(..), Promise.resolve(false)]):
\* the reaction of the already resolved second promise is queued when race() is
\* called, while the first promise is still pending then: it is fulfilled only
\* two microtask hops after the reaction of p has run, also when p settled long
\* ago.  The race is therefore always won by false.
SettledCheck(stage) == FALSE

\* ---- processes -----------------------------------------------------------

\* index.ts / scheduler.ts: each run is a child process with its own
\* StateManager; the legacy main calls runPipeline in the server process.
proc(r) == IF entry = "index" THEN r ELSE 0

Executing(r) == cpc[r] \in {"spawned", "list", "await", "check"}

Ended(r) == cpc[r] \in {"exit0", "exit1", "killed", "spawnerr"}

\* A continuation of process p is runnable: the removal loop is under way, or
\* Promise.race(running) holds a settled promise.
Busy(p) ==
    \E r \in RunIds :
        /\ proc(r) = p
        /\ \/ cpc[r] = "check"
           \/ /\ cpc[r] = "await"
              /\ \E i \in 1..Len(running[r]) : Settled(task[r][running[r][i]])

InFlight(r, id) == cpc[r] \in {"await", "check"} /\ task[r][id] \in Active

\* ---- state store: files and instances ------------------------------------

\* The ids the calls of a StateManager are made with.
StoreIds == 1..MaxStoreIds

\* StateManager instances over one data_dir: Writer is the one of the pipeline
\* (worker.ts calls isProcessed, addProcessed, updateLastRun), Reader the one
\* of the server (server.ts calls getProcessedBookmarks and getLastRun).
Reader == 0
Writer == 1
StoreInsts == {Reader, Writer}

\* File contents.  "unparseable": JSON.parse throws (empty, truncated,
\* garbage).  "json_no_map": a JSON object without processedBookmarks, such
\* as {}; val then carries only lastRun.
Missing == [kind |-> "missing", val |-> EMPTY_STATE]
Unparseable == [kind |-> "unparseable", val |-> EMPTY_STATE]
Json(st) == [kind |-> "json", val |-> st]
NoMap(st) == [kind |-> "json_no_map", val |-> st]

\* state.ts:20-27.  readFileSync or JSON.parse throws: the empty aggregate;
\* else whatever JSON.parse returned, taken as an AppState unchecked.
load(f) ==
    IF f.kind \in {"missing", "unparseable"} THEN Json(EMPTY_STATE) ELSE f

\* bookmarkId in this.state.processedBookmarks, Object.values(...) and the
\* assignment of addProcessed throw a TypeError when processedBookmarks is
\* undefined.
HasMap(parsed) == parsed.kind = "json"

Persisted(id) == HasMap(file) /\ id \in Keys(file.val)

Dead == [live |-> FALSE, state |-> Json(EMPTY_STATE)]

NoRet ==
    [op |-> "none", inst |-> 0, id |-> 0, thrown |-> FALSE, keys |-> {},
     flag |-> FALSE, last |-> 0]

InPlacePath == "state.json"

\* state.ts:31, the path writeFileSync writes to.
tmpPath == "state.json.tmp"

StoreIdle ==
    /\ file = Missing
    /\ tmpFile = Missing
    /\ sm = [i \in StoreInsts |-> Dead]
    /\ spos = "idle"
    /\ pending = 0
    /\ ret = NoRet
    /\ uncommitted = {}

\* ---- episode list ---------------------------------------------------------

\* A bookmarkId is the decimal string of a number; <<h, l>> stands for the
\* number h * 65536 + l, which keeps ids around 2^32 within the integers of
\* the checker.
IdLess(a, b) == a[1] < b[1] \/ (a[1] = b[1] /\ a[2] < b[2])

\* The ids of the entries: 1, 2, 4294967295 and 4294967296.
SortIds == {<<0, 1>>, <<0, 2>>, <<65535, 65535>>, <<65536, 0>>}

SortDates == {1, 2}

\* A property key is an array index when it is the canonical string of an
\* integer up to 2^32 - 2.
IsArrayIndex(id) == IdLess(id, <<65535, 65535>>)

EntryAt(list, id) == CHOOSE i \in 1..Len(list) : list[i].id = id

\* state.ts:42, this.state.processedBookmarks[bookmark.bookmarkId] = bookmark:
\* a new property is created last, an existing one keeps its place.
SetEntry(list, ep) ==
    IF \E i \in 1..Len(list) : list[i].id = ep.id
    THEN [list EXCEPT ![EntryAt(list, ep.id)] = ep]
    ELSE Append(list, ep)

IsIndexEntry(ep) == IsArrayIndex(ep.id)

IsNamedEntry(ep) == ~IsArrayIndex(ep.id)

RECURSIVE AscById(_)
AscById(S) ==
    IF S = {} THEN <<>>
    ELSE LET m == CHOOSE x \in S : \A y \in S : x = y \/ IdLess(x.id, y.id)
         IN <<m>> \o AscById(S \ {m})

Range(list) == {list[i] : i \in 1..Len(list)}

\* Object.values (state.ts:50) and JSON.stringify (state.ts:33) go through the
\* own properties of an object in the order of OrdinaryOwnPropertyKeys: the
\* array indices in ascending numeric order, then the other string keys in the
\* order of their creation.
OwnPropertyOrder(list) ==
    AscById(Range(SelectSeq(list, IsIndexEntry))) \o SelectSeq(list, IsNamedEntry)

\* The place of x in a list sorted by the comparator of state.ts:51,
\* getTime(b.pubDate) - getTime(a.pubDate): after the entries that do not
\* sort after it (Array.prototype.sort is stable).
InsertByDate(sorted, x) ==
    LET k == Cardinality({i \in 1..Len(sorted) : sorted[i].pubDate >= x.pubDate})
    IN SubSeq(sorted, 1, k) \o <<x>> \o SubSeq(sorted, k + 1, Len(sorted))

RECURSIVE SortByDateDesc(_)
SortByDateDesc(list) ==
    IF list = <<>> THEN <<>>
    ELSE InsertByDate(SortByDateDesc(SubSeq(list, 1, Len(list) - 1)),
                      list[Len(list)])

\* state.ts:47-53.  The load() gives the entries in the order save() wrote
\* them.
getProcessedBookmarks(list) == SortByDateDesc(OwnPropertyOrder(list))

SortIdle ==
    /\ eps = <<>>
    /\ listed = <<>>

\* ---- translator -----------------------------------------------------------

\* translator.ts:5-20.
LANG_NAME_TO_CODE ==
    [n \in {"svenska", "swedish", "english", "engelska", "deutsch", "tyska",
            "french", "franska", "spanish", "spanska", "norwegian", "norska",
            "danish", "danska"} |->
        CASE n \in {"svenska", "swedish"} -> "swe"
          [] n \in {"english", "engelska"} -> "eng"
          [] n \in {"deutsch", "tyska"} -> "deu"
          [] n \in {"french", "franska"} -> "fra"
          [] n \in {"spanish", "spanska"} -> "spa"
          [] n \in {"norwegian", "norska"} -> "nor"
          [] n \in {"danish", "danska"} -> "dan"]

\* Values of config.target_language: names of the table in several spellings
\* and names that are not in it.
TargetNames ==
    {"svenska", "Svenska", "ENGLISH", "norska", "klingon", "constructor", ""}

\* What franc returns: an ISO 639-3 code, "und" when it cannot tell.
DetectedCodes == {"swe", "eng", "nob", "und"}

\* String.prototype.toLowerCase on TargetNames.
toLowerCase(name) ==
    CASE name = "Svenska" -> "svenska"
      [] name = "ENGLISH" -> "english"
      [] OTHER -> name

MissingCodeUnd == "und"

\* translator.ts:42, the right side of ?? "".
MissingCode == ""

\* translator.ts:41-42, LANG_NAME_TO_CODE[name.toLowerCase()] ?? "".  A name
\* that Object.prototype defines gives the inherited value, which is no string.
targetCode(name) ==
    IF toLowerCase(name) \in DOMAIN LANG_NAME_TO_CODE
    THEN LANG_NAME_TO_CODE[toLowerCase(name)]
    ELSE IF toLowerCase(name) = "constructor" THEN "[Function: Object]"
    ELSE MissingCode

\* translator.ts:39-46 and :66-73.
Skips(call) == call.skip /\ call.detected = targetCode(call.target)

BackoffFlat(n) == BackoffBaseMs

\* translator.ts:126, 1000 * Math.pow(2, attempt).
Backoff(n) == BackoffBaseMs * 2 ^ n

NoCall ==
    [fn |-> "none", skip |-> FALSE, target |-> "", detected |-> "und",
     chunks |-> 1]

\* cause: the failure the thrown error carries in its message.
NoResult == [kind |-> "none", last |-> 0, cause |-> "none"]

\* What makes an attempt fail: a status that is not ok (translator.ts:109-114),
\* a rejected fetch, or the abort of AbortSignal.timeout (:106).
Failures == {"status", "network", "timeout"}

CatchErrorFirst(prev, err) == IF prev = "none" THEN err ELSE prev

\* translator.ts:122, lastError = err.
CatchError(prev, err) == err

\* No processBookmark is between its translateTitle and its addProcessed.
NoItem == [stage |-> "none", title |-> "none"]

TranslatorIdle ==
    /\ tcall = NoCall
    /\ tphase = "idle"
    /\ chunk = 0
    /\ attempt = 0
    /\ requests = 0
    /\ total = 0
    /\ delays = <<>>
    /\ tresult = NoResult
    /\ lastError = "none"
    /\ failures = <<>>
    /\ item = NoItem

\* ---- long bodies ----------------------------------------------------------

\* translator.ts:22.
MAX_CHARS_PER_CHUNK == 12000

\* A text is a sequence of pieces: "w" is a run of RunChars letters, "a" one
\* letter, "." one of the characters . ! ? and " " one whitespace character.
TextChars == {"w", "a", ".", " "}

\* The piece "\n\n" is two line feeds; it is whitespace too.
Whitespace == {" ", "\n\n"}

RunChars == 6000

Texts == UNION {[1..n -> TextChars] : n \in 0..MaxText}

\* String.prototype.length.
RECURSIVE Length(_)
Length(t) ==
    IF t = <<>> THEN 0
    ELSE (IF Head(t) = "w" THEN RunChars ELSE IF Head(t) = "\n\n" THEN 2 ELSE 1)
         + Length(Tail(t))

\* The length of the longest prefix of t made of pieces in S.
RECURSIVE RunLen(_, _)
RunLen(t, S) ==
    IF t = <<>> \/ Head(t) \notin S THEN 0 ELSE 1 + RunLen(Tail(t), S)

From(t, i) == SubSeq(t, i, Len(t))

\* translator.ts:142, text.match(/[^.!?]+[.!?]+[\s]*/g): a match starts at a
\* character that is no terminator, takes the characters up to the next
\* terminator, the terminators and the whitespace after them.  Terminators
\* before a match and the characters after the last terminator are in no
\* match.  <<>> stands for null.
RECURSIVE match(_)
match(t) ==
    LET t1 == From(t, RunLen(t, {"."}) + 1)
        n == RunLen(t1, (TextChars \cup Whitespace) \ {"."})
        k == RunLen(From(t1, n + 1), {"."})
        w == RunLen(From(t1, n + k + 1), Whitespace)
    IN IF n = 0 \/ k = 0 THEN <<>>
       ELSE <<SubSeq(t1, 1, n + k + w)>> \o match(From(t1, n + k + w + 1))

\* String.prototype.trim.
RECURSIVE trim(_)
trim(t) ==
    IF t = <<>> THEN t
    ELSE IF Head(t) \in Whitespace THEN trim(Tail(t))
    ELSE IF t[Len(t)] \in Whitespace THEN trim(SubSeq(t, 1, Len(t) - 1))
    ELSE t

\* translator.ts:146-158: the loop over the sentences and the last push.
RECURSIVE ChunkLoop(_, _, _, _)
ChunkLoop(sentences, out, current, maxChars) ==
    IF sentences = <<>>
    THEN IF Length(trim(current)) > 0 THEN Append(out, trim(current)) ELSE out
    ELSE LET sentence == Head(sentences)
             full == /\ Length(current) + Length(sentence) > maxChars
                     /\ Length(current) > 0
         IN ChunkLoop(Tail(sentences),
                      IF full THEN Append(out, trim(current)) ELSE out,
                      (IF full THEN <<>> ELSE current) \o sentence,
                      maxChars)

\* translator.ts:139-159.
splitIntoChunks(t, maxChars) ==
    IF Length(t) <= maxChars THEN <<t>>
    ELSE ChunkLoop(IF match(t) = <<>> THEN <<t>> ELSE match(t), <<>>, <<>>,
                   maxChars)

\* What the remote call returns for a chunk, and the "\n\n" of the join.
Translation(c) == [kind |-> "translation", of |-> c]

Separator == [kind |-> "separator", of |-> <<>>]

\* translator.ts:56, translated.join("\n\n").
RECURSIVE join(_)
join(list) ==
    IF Len(list) <= 1 THEN list
    ELSE <<Head(list), Separator>> \o join(Tail(list))

ChunksIdle ==
    /\ text = <<>>
    /\ chunkList = <<>>
    /\ sent = <<>>
    /\ translated = <<>>
    /\ joined = <<>>
    /\ cphase = "idle"

\* ---- synthesis ------------------------------------------------------------

\* tts.ts:46, the bytes of one second of audio.
BytesPerSecond == 16000

\* The sizes of the audio the engine writes for a chunk.
AudioSizes == {0, 1, 7999, 96000, 192000}

RoundDown(n, d) == n \div d

\* Math.round of n / d for n >= 0 and d > 0: halves go up.
Round(n, d) == (2 * n + d) \div (2 * d)

\* tts.ts:46, Math.round(result.size / 16000).
estimatedDuration(size) == Round(size, BytesPerSecond)

RECURSIVE Sum(_)
Sum(sizes) == IF sizes = <<>> THEN 0 ELSE Head(sizes) + Sum(Tail(sizes))

NoSynthResult == [kind |-> "none", size |-> 0, duration |-> 0]

SynthIdle ==
    /\ sphase = "idle"
    /\ wpc = "none"
    /\ nChunks = 0
    /\ partSizes = <<>>
    /\ partFiles = {}
    /\ unlinkFailed = {}
    /\ outSize = -1
    /\ stdout = -1
    /\ exitCode = 0
    /\ sresult = NoSynthResult
    /\ prevResult = NoSynthResult

\* ---- audio names ----------------------------------------------------------

\* A string is a sequence of runs <<c, n>>, n copies of the character c.
\* Titles are made of upper case letters, letters with a diacritic, digits,
\* whitespace and hyphens.
TitleRuns ==
    {<<"A", 1>>, <<"A", 59>>, <<"é", 1>>, <<"1", 1>>, <<" ", 1>>, <<"-", 1>>}

Titles == UNION {[1..n -> TitleRuns] : n \in 0..MaxTitle}

\* String(bookmark.bookmark_id) for the ids 1, 11 and 2.
FileIds == {<<<<"1", 1>>>>, <<<<"1", 2>>>>, <<<<"2", 1>>>>}

\* tts.ts:76, the cap of the slug.
SlugChars == 60

\* Adjacent runs of the same character are one run.
RECURSIVE Canon(_)
Canon(t) ==
    IF Len(t) <= 1 THEN t
    ELSE LET rest == Canon(Tail(t))
         IN IF Head(t)[1] = Head(rest)[1]
            THEN <<<<Head(t)[1], Head(t)[2] + Head(rest)[2]>>>> \o Tail(rest)
            ELSE <<Head(t)>> \o rest

\* tts.ts:71-73: normalize("NFD"), the combining marks removed, toLowerCase.
Fold(c) ==
    CASE c = "A" -> "a"
      [] c = "é" -> "e"
      [] OTHER -> c

HyphenateNothing(t) == Canon(t)

\* tts.ts:74, replace(/[^a-z0-9]+/g, "-").
Hyphenate(t) ==
    LET folded == Canon([i \in 1..Len(t) |->
                        IF Fold(t[i][1]) \in {"a", "e", "1"}
                        THEN <<Fold(t[i][1]), t[i][2]>> ELSE <<"-", 1>>])
    IN [i \in 1..Len(folded) |->
            IF folded[i][1] = "-" THEN <<"-", 1>> ELSE folded[i]]

\* tts.ts:75, replace(/^-+|-+$/g, "").
TrimHyphens(t) ==
    LET a == IF t # <<>> /\ Head(t)[1] = "-" THEN Tail(t) ELSE t
    IN IF a # <<>> /\ a[Len(a)][1] = "-" THEN SubSeq(a, 1, Len(a) - 1) ELSE a

\* tts.ts:76, slice(0, n).
RECURSIVE slice(_, _)
slice(t, n) ==
    IF t = <<>> \/ n <= 0 THEN <<>>
    ELSE IF Head(t)[2] >= n THEN <<<<Head(t)[1], n>>>>
    ELSE <<Head(t)>> \o slice(Tail(t), n - Head(t)[2])

\* tts.ts:70-76, const safe.
safe(title) == slice(TrimHyphens(Hyphenate(title)), SlugChars)

TemplateNoSeparator(bookmarkId, slug) == Canon(bookmarkId \o slug \o <<<<".mp3", 1>>>>)

\* tts.ts:78, `${bookmarkId}-${safe}.mp3`.
Template(bookmarkId, slug) ==
    Canon(bookmarkId \o <<<<"-", 1>>>> \o slug \o <<<<".mp3", 1>>>>)

\* tts.ts:69-79.
generateFilename(bookmarkId, title) == Template(bookmarkId, safe(title))

NoName == [id |-> <<>>, safe |-> <<>>, name |-> <<>>]

NamesIdle ==
    /\ fname1 = NoName
    /\ fname2 = NoName

\* ---- discovery ------------------------------------------------------------

\* What one call of getBookmarks returns: bookmarks of different ids.
BookmarkLists ==
    {l \in UNION {[1..n -> Ids] : n \in 0..MaxList} :
        \A i, j \in 1..Len(l) : i # j => l[i] # l[j]}

dedupeNone(list) == list

\* worker.ts:37-42: the filter with the set seen keeps the first bookmark of
\* every bookmark_id.
dedupe(list) ==
    LET RECURSIVE Keep(_, _)
        Keep(l, seen) ==
            IF l = <<>> THEN <<>>
            ELSE IF Head(l) \in seen THEN Keep(Tail(l), seen)
            ELSE <<Head(l)>> \o Keep(Tail(l), seen \cup {Head(l)})
    IN Keep(list, {})

\* worker.ts:48-50, bookmarks.filter((b) => !state.isProcessed(...)).
RECURSIVE newBookmarks(_, _)
newBookmarks(list, done) ==
    IF list = <<>> THEN <<>>
    ELSE (IF Head(list) \in done THEN <<>> ELSE <<Head(list)>>)
         \o newBookmarks(Tail(list), done)

ListingThrowsNever(ok) == FALSE

\* worker.ts:31 and :44: the await of a getBookmarks that rejected throws,
\* out of the loop over the tags and out of runPipeline.
ListingThrows(ok) == ~ok

DiscoveryIdle ==
    /\ dphase = "idle"
    /\ tagCount = 0
    /\ tagIdx = 0
    /\ taggedBookmarks = <<>>
    /\ matched = {}
    /\ relisted = {}
    /\ dbookmarks = <<>>
    /\ dqueue = <<>>
    /\ drunning = <<>>
    /\ dsettled = {}
    /\ processedIds = {}
    /\ startProcessed = {}
    /\ listFailed = FALSE

\* ---- configuration --------------------------------------------------------

\* config.ts:6-13.
REQUIRED_FIELDS ==
    {"instapaper.consumer_key", "instapaper.consumer_secret",
     "instapaper.username", "instapaper.password", "translation.api_key",
     "server.base_url"}

\* The values of a field in the parsed file: the JavaScript values undefined
\* and null, the empty string and a string that is not empty.
FieldValues == {"undefined", "null", "", "value"}

\* The environment variable of a field (config.ts:25-38): not set, empty or
\* not empty.
EnvValues == {"unset", "", "value"}

NoFields == [f \in REQUIRED_FIELDS |-> "undefined"]

NoEnv == [f \in REQUIRED_FIELDS |-> "unset"]

\* The file at CONFIG_PATH: it does not exist; it cannot be read or is no
\* YAML; it holds no document or the document null (yaml.load returns
\* undefined or null); it holds a mapping.
ConfigFiles ==
    {[kind |-> k, vals |-> NoFields] : k \in {"ENOENT", "unreadable", "nodoc"}}
    \cup {[kind |-> "mapping", vals |-> v] : v \in [REQUIRED_FIELDS -> FieldValues]}

\* At most MaxEnv of the variables are set.
Environments ==
    {e \in [REQUIRED_FIELDS -> EnvValues] :
        Cardinality({f \in REQUIRED_FIELDS : e[f] # "unset"}) <= MaxEnv}

\* config.ts:63-103.  No required field has a default: applyDefaults leaves
\* the required fields of an object as they are.
applyDefaults(raw) == raw

\* config.ts:24-61.
applyEnvOverrides(raw, env) ==
    [f \in REQUIRED_FIELDS |-> IF env[f] = "unset" THEN raw[f] ELSE env[f]]

\* config.ts:105-112, the fields validate() pushes to `missing`.
missingFields(config) ==
    {f \in REQUIRED_FIELDS : config[f] \in {"undefined", "null", ""}}

NotLoaded == [kind |-> "none", missing |-> {}]

\* config.ts:121-143.  The read or yaml.load throws and the error is no
\* ENOENT: it is thrown on (:134).  yaml.load returned undefined or null:
\* applyDefaults reads a property of it at :96 and throws a TypeError.
\* Else defaults, overrides and validate, which throws when a field is missing.
loadConfig(yamlFile, env) ==
    IF yamlFile.kind = "unreadable" THEN [NotLoaded EXCEPT !.kind = "read_error"]
    ELSE IF yamlFile.kind = "nodoc" THEN [NotLoaded EXCEPT !.kind = "type_error"]
    ELSE LET raw == IF yamlFile.kind = "ENOENT" THEN NoFields ELSE yamlFile.vals
             missing == missingFields(applyEnvOverrides(applyDefaults(raw), env))
         IN IF missing # {}
            THEN [kind |-> "missing_fields", missing |-> missing]
            ELSE [kind |-> "config", missing |-> {}]

ConfigIdle ==
    /\ cfgFile = [kind |-> "ENOENT", vals |-> NoFields]
    /\ cfgEnv = NoEnv
    /\ loaded = NotLoaded
    /\ mphase = "off"
    /\ started = {}

\* ---- prompts --------------------------------------------------------------

\* A template is a sequence of pieces: text, white space, the placeholder as
\* written in the README, the placeholder with spaces inside the braces, and
\* braces around another name.
Placeholders == {"{{target_language}}", "{{ target_language }}"}

TemplatePieces == Placeholders \cup {"text", " ", "{{language}}"}

\* config.translation.title_prompt or text_prompt: a string, or not set.
Undefined == [defined |-> FALSE, pieces |-> <<>>]

Templates ==
    {Undefined}
    \cup {[defined |-> TRUE, pieces |-> p] :
            p \in UNION {[1..n -> TemplatePieces] : n \in 0..MaxTemplate}}

TargetLanguages == {"svenska", "english"}

\* part_004:1-5.
DEFAULT_TITLE_PROMPT_TEMPLATE ==
    <<"You are a translator. Translate the following title to ",
      "{{target_language}}",
      ". Return only the translated title, nothing else.">>

DEFAULT_TEXT_PROMPT_TEMPLATE ==
    <<"You are a translator. Translate the following text to ",
      "{{target_language}}",
      ". Preserve paragraph breaks. Return only the translated text, nothing else.">>

\* part_004:16, source.replace(/\{\{\s*target_language\s*\}\}/g, targetLanguage).
replace(source, targetLanguage) ==
    [i \in 1..Len(source) |->
        IF source[i] \in Placeholders THEN targetLanguage ELSE source[i]]

\* part_004:12, template && template.trim().length > 0.
NotBlank(template) ==
    /\ template.defined
    /\ \E i \in 1..Len(template.pieces) : template.pieces[i] # " "

\* part_004:7-17.
resolveTranslationPrompt(template, targetLanguage, fallbackTemplate) ==
    replace(IF NotBlank(template) THEN template.pieces ELSE fallbackTemplate,
            targetLanguage)

systemPromptResolved(config) ==
    resolveTranslationPrompt(config.template, config.target_language,
        IF config.isTitle THEN DEFAULT_TITLE_PROMPT_TEMPLATE
        ELSE DEFAULT_TEXT_PROMPT_TEMPLATE)

\* translator.ts:82-84: the template literals with ${config.target_language};
\* config.title_prompt and config.text_prompt are not read.
systemPrompt(config) ==
    IF config.isTitle
    THEN <<"You are a translator. Translate the following title to ",
           config.target_language,
           ". Return only the translated title, nothing else.">>
    ELSE <<"You are a translator. Translate the following text to ",
           config.target_language,
           ". Preserve paragraph breaks. Return only the translated text, nothing else.">>

NoPromptCall ==
    [isTitle |-> FALSE, template |-> Undefined, target_language |-> "none"]

PromptIdle ==
    /\ pcfg = NoPromptCall
    /\ pphase = "idle"
    /\ pattempt = 0
    /\ psent = <<>>

\* ---- spoken text ----------------------------------------------------------

\* Strings are sequences of pieces.  bookmark.url: empty, a URL with and
\* without the prefix www., and a string that is no URL.
RawSources ==
    {<<>>, <<"https://", "www.", "example.com", "/path">>,
     <<"https://", "example.com">>, <<"source">>}

ArticleTitles == {<<"My Article">>, <<"Min artikel">>}

ArticleBodies == {<<>>, <<"Body here">>, <<"Text här">>}

\* parser.ts:40-50: the hostname of a URL without a leading www., any other
\* string as it is.
cleanSource(source) ==
    IF source = <<>> THEN <<>>
    ELSE IF Head(source) = "https://"
    THEN LET host == SelectSeq(Tail(source), LAMBDA p : p # "/path")
         IN IF host # <<>> /\ Head(host) = "www." THEN Tail(host) ELSE host
    ELSE source

\* parser.ts:27-30.
introText(sourceName, title) ==
    IF sourceName # <<>>
    THEN <<"En artikel från ">> \o sourceName \o <<". ">> \o title \o <<".">>
    ELSE title \o <<".">>

\* parser.ts:19-35, after the conversion of the HTML to the text `body`.
parseArticle(title, source, body) ==
    [title |-> title, source |-> cleanSource(source), body |-> body,
     introText |-> introText(cleanSource(source), title),
     fullText |-> introText(cleanSource(source), title) \o <<"\n\n">> \o body]

introOfOriginal(a, title) == a.introText

\* worker.ts:119-122.
intro(a, title) ==
    IF a.source # <<>>
    THEN <<"En artikel från ">> \o a.source \o <<". ">> \o title \o <<".">>
    ELSE title \o <<".">>

NoArticle ==
    [title |-> <<>>, source |-> <<>>, body |-> <<>>, introText |-> <<>>,
     fullText |-> <<>>]

AnnounceIdle ==
    /\ article = NoArticle
    /\ aconf = FALSE
    /\ aphase = "idle"
    /\ translatedTitle = <<>>
    /\ textForTTS = <<>>
    /\ synthText = <<>>
    /\ episode = <<>>

\* ---- settled check --------------------------------------------------------

\* `running` when Promise.race(running) at worker.ts:75 has resolved: one to
\* MAX_CONCURRENCY promises, one of them settled.  processBookmark catches
\* every error, so a settled promise is fulfilled.
Pools ==
    {p \in UNION {[1..n -> {"pending", "fulfilled"}] : n \in 1..MAX_CONCURRENCY} :
        \E i \in 1..Len(p) : p[i] = "fulfilled"}

\* A job of the microtask queue: a reaction, and the position i of the check
\* whose promises it belongs to.
\* worker.ts:79-82, the synchronous part of the check of running[i]:
\* then() on a settled promise queues its reaction, on a pending one
\* registers it; catch() registers on the pending then-promise; race()
\* registers on the pending catch-promise and queues the reaction of the
\* promise Promise.resolve(false); await registers on the pending race.
CheckJobs(state, i) ==
    IF state = "fulfilled" THEN <<<<"then", i>>, <<"resolved", i>>>>
    ELSE <<<<"resolved", i>>>>

NoCheck == [was |-> "none", settled |-> "none"]

\* running.splice(i, 1).
Splice(run, i) == [j \in 1..(Len(run) - 1) |-> IF j < i THEN run[j] ELSE run[j + 1]]

RaceIdle ==
    /\ pool = <<>>
    /\ ri = 0
    /\ thenP = "none"
    /\ catchP = "none"
    /\ raceP = "none"
    /\ microtasks = <<>>
    /\ was = "none"
    /\ lastCheck = NoCheck

\* ---- the split of the tts-worker -------------------------------------------

\* feed.ts:79.
TTS_MAX_CHARS_PER_CHUNK == 5000

TtsTexts == UNION {[1..n -> TextChars \cup {"\n\n"}] : n \in 0..MaxText}

\* feed.ts:133, text.split(/\n\n+/): the pieces between the runs of line
\* feeds; a text that begins or ends with a run has an empty first or last
\* paragraph.
RECURSIVE split(_)
split(t) ==
    LET n == RunLen(t, TextChars)
        k == RunLen(From(t, n + 1), {"\n\n"})
    IN IF k = 0 THEN <<t>>
       ELSE <<SubSeq(t, 1, n)>> \o split(From(t, n + k + 1))

\* feed.ts:148-155: the loop over the sentences of a long paragraph.
RECURSIVE SentenceLoop(_, _, _, _)
SentenceLoop(sentences, out, current, maxChars) ==
    IF sentences = <<>> THEN [out |-> out, current |-> current]
    ELSE LET sentence == Head(sentences)
             full == /\ Length(current) + Length(sentence) > maxChars
                     /\ Length(current) > 0
         IN SentenceLoop(Tail(sentences),
                         IF full THEN Append(out, trim(current)) ELSE out,
                         (IF full THEN <<>> ELSE current) \o sentence,
                         maxChars)

\* feed.ts:137-165: the loop over the paragraphs and the last push.
RECURSIVE ParagraphLoop(_, _, _, _)
ParagraphLoop(paragraphs, out, current, maxChars) ==
    IF paragraphs = <<>>
    THEN IF Length(trim(current)) > 0 THEN Append(out, trim(current)) ELSE out
    ELSE LET paragraph == Head(paragraphs)
             full == /\ Length(current) + Length(paragraph) + 2 > maxChars
                     /\ Length(current) > 0
             out1 == IF full THEN Append(out, trim(current)) ELSE out
             cur1 == IF full THEN <<>> ELSE current
         IN IF Length(paragraph) > maxChars
            THEN LET out2 == IF Length(cur1) > 0 THEN Append(out1, trim(cur1))
                             ELSE out1
                     r == SentenceLoop(IF match(paragraph) = <<>>
                                       THEN <<paragraph>> ELSE match(paragraph),
                                       out2, <<>>, maxChars)
                 IN ParagraphLoop(Tail(paragraphs), r.out, r.current, maxChars)
            ELSE ParagraphLoop(Tail(paragraphs), out1,
                    cur1 \o (IF cur1 # <<>> THEN <<"\n\n">> ELSE <<>>) \o paragraph,
                    maxChars)

\* feed.ts:130-166.
splitTextForTTS(t, maxChars) ==
    IF Length(t) <= maxChars THEN <<t>>
    ELSE ParagraphLoop(split(t), <<>>, <<>>, maxChars)

TtsIdle ==
    /\ ttsText = <<>>
    /\ textChunks = <<>>

\* ---- the state file under two instances -------------------------------------

\* StateManager.removeProcessed, called at part_003:123: the record of the id
\* leaves the mapping of the instance (deletion is the one change of an
\* Episode, an admin action).
removeProcessedMem(st, id) ==
    [st EXCEPT !.processedBookmarks[id] = Absent]

\* ---- the admin server ----------------------------------------------------------

\* part_001:50-51.
SESSION_COOKIE == "instapod_session"
SESSION_MAX_AGE == 7 * 24 * 3600 * 1000

\* part_001:231-232.
LOGIN_WINDOW_MS == 15 * 60 * 1000
LOGIN_MAX_ATTEMPTS == 5

\* part_001:269, the period of the cleaning timer.
CLEANUP_INTERVAL_MS == 5 * 60 * 1000

ClientIps == {"10.0.0.1", "10.0.0.2"}

\* Strings whose length counts are sequences of characters; <<>> is the empty
\* string, and stands for a field that is not there too (both are falsy).
PasswordTexts == {<<>>, <<"a", "b", "c">>, <<"a", "b", "c", "d">>, <<"h", "u", "n", "t", "e", "r">>}

\* req.body.password: a string, or a JSON value of another type.
Text(chars) == [type |-> "string", chars |-> chars]

BodyPasswords ==
    [type : {"string"}, chars : PasswordTexts] \cup {[type |-> "number", chars |-> <<"1">>]}

\* part_001:199, randomBytes(32).toString("hex"): one of
SessionSecrets == {"s1", "s2"}

DEFAULT_SECRET == "instapod-default-secret-change-me"

\* part_001:53-55.
getSecret(config) ==
    IF config.session_secret # "" THEN config.session_secret ELSE DEFAULT_SECRET

\* A token is `encoded.sig`: the payload and the secret its HMAC was made
\* with (two secrets never give the same signature); wellFormed is FALSE for
\* a cookie without the two parts or with a payload that is not JSON with exp.
NoToken == [present |-> FALSE, wellFormed |-> FALSE, secret |-> "", exp |-> 0]

\* part_001:57-65.
createSessionToken(secret, t) ==
    [present |-> TRUE, wellFormed |-> TRUE, secret |-> secret, exp |-> t + SESSION_MAX_AGE]

\* part_001:67-78.
verifySessionToken(token, secret, t) ==
    /\ token.wellFormed
    /\ token.secret = secret
    /\ token.exp > t

\* The cookies a client can send: none, those the server has issued or could
\* issue, and forged ones.
SessionTokens ==
    {NoToken,
     [present |-> TRUE, wellFormed |-> FALSE, secret |-> DEFAULT_SECRET,
      exp |-> 2 * SESSION_MAX_AGE]} \cup
    [present : {TRUE}, wellFormed : {TRUE},
     secret : SessionSecrets \cup {DEFAULT_SECRET},
     exp : {SESSION_MAX_AGE, 2 * SESSION_MAX_AGE}]

Methods == {"GET", "POST", "DELETE"}

\* req.originalUrl of requests under the mounts of part_003:27-28.
Urls ==
    {"/admin", "/admin/", "/admin?setup=1", "/api/admin/setup", "/api/admin/login",
     "/api/admin/logout", "/api/episodes"}

\* part_001:98-142, createAuthGuard: "next", or the response of the guard.
authGuardErased(config, method, url, token, t) == "next"

authGuard(config, method, url, token, t) ==
    LET hasPassword == config.password # <<>>
    IN IF url = "/api/admin/setup" /\ method = "POST" THEN "next"
       ELSE IF ~hasPassword
            THEN IF url = "/admin" THEN "setup_page" ELSE "403"
       ELSE IF url = "/api/admin/login" /\ method = "POST" THEN "next"
       ELSE IF token.present /\ verifySessionToken(token, getSecret(config), t)
            THEN "next"
       ELSE IF url = "/admin" THEN "login_page" ELSE "401"

NoEntry == [count |-> 0, firstAttempt |-> 0]

\* part_001:239-254, isLoginRateLimited(ip) at time t: the map after the call.
\* The counter of a blocked client stops at MaxCount in the model.
limiterAfter(attempts, ip, t) ==
    LET counter == attempts[ip]
    IN IF counter = NoEntry \/ t - counter.firstAttempt > LOGIN_WINDOW_MS
       THEN [attempts EXCEPT ![ip] = [count |-> 1, firstAttempt |-> t]]
       ELSE [attempts EXCEPT ![ip].count =
                IF counter.count < MaxCount THEN counter.count + 1 ELSE counter.count]

\* and what it returns.
isLoginRateLimitedOff(attempts, ip, t) == FALSE

isLoginRateLimited(attempts, ip, t) ==
    LET counter == attempts[ip]
    IN IF counter = NoEntry \/ t - counter.firstAttempt > LOGIN_WINDOW_MS
       THEN FALSE
       ELSE counter.count + 1 > LOGIN_MAX_ATTEMPTS

\* part_001:257-259.
clearLoginRateLimit(attempts, ip) == [attempts EXCEPT ![ip] = NoEntry]

NoRequest == [method |-> "", url |-> "", ip |-> "",
              password |-> [type |-> "string", chars |-> <<>>], token |-> NoToken]

NoResponse == [by |-> "", status |-> 0, page |-> "", cookie |-> NoToken]

Answer(by, status, page) == [by |-> by, status |-> status, page |-> page, cookie |-> NoToken]

StoredAdminConfigs ==
    {[password |-> <<>>, session_secret |-> ""],
     [password |-> <<"a", "b", "c", "d">>, session_secret |-> ""],
     [password |-> <<"a", "b", "c", "d">>, session_secret |-> "s1"]}

AdminIdle ==
    /\ adminConfig = [password |-> <<>>, session_secret |-> ""]
    /\ clock = 0
    /\ loginAttempts = [ip \in ClientIps |-> NoEntry]
    /\ compared = [ip \in ClientIps |-> 0]
    /\ areq = NoRequest
    /\ ares = NoResponse

\* ---- the config routes ---------------------------------------------------------

\* part_003:45-49, the string of eight bullets (U+2022).
MASK == "<8 bullets>"

\* The sections of the config that carry a credential, and their fields.
Sections == {"instapaper", "translation", "admin"}

Fields == {"password", "consumer_secret", "api_key", "session_secret"}

FieldsOf(section) ==
    IF section = "instapaper" THEN {"password", "consumer_secret"}
    ELSE IF section = "translation" THEN {"api_key"}
    ELSE {"password", "session_secret"}

\* JSON values.  A field is a string, or is not there (t = "undef"); a
\* section is an object of fields, null, a string, or is not there.
NoField == [t |-> "undef", s |-> ""]
StrField(s) == [t |-> "str", s |-> s]
NoFieldsAt == [f \in Fields |-> NoField]
Undef == [t |-> "undef", s |-> "", o |-> NoFieldsAt]
Null == [t |-> "null", s |-> "", o |-> NoFieldsAt]
Str(s) == [t |-> "str", s |-> s, o |-> NoFieldsAt]
Obj(o) == [t |-> "obj", s |-> "", o |-> o]

\* The fields of a section set to the values of `vals`, in the order of the
\* code: the first field of the section, then the second.
First(section) == IF section = "translation" THEN "api_key" ELSE "password"

ObjOf(section, v1, v2) ==
    Obj([f \in Fields |->
            IF f \notin FieldsOf(section) THEN NoField
            ELSE IF f = First(section) THEN v1 ELSE v2])

\* The config a server starts with: loadConfig has checked the credentials
\* of instapaper and translation; admin is not there, or carries what the
\* file or an earlier setup gave it.
LoadedConfigs ==
    {[k \in Sections |->
        IF k = "instapaper" THEN ObjOf(k, StrField("ip"), StrField("cs"))
        ELSE IF k = "translation" THEN ObjOf(k, StrField("ak"), NoField)
        ELSE a] :
     a \in {Undef, ObjOf("admin", NoField, NoField),
            ObjOf("admin", StrField("pw"), NoField),
            ObjOf("admin", StrField("pw"), StrField("ss"))}}

\* The bodies of PUT /api/config that name one section: null, a string, or
\* an object whose fields are left out, new or the mask.
UpdateFields == {NoField, StrField("new"), StrField(MASK)}

Bodies ==
    UNION {{[k \in Sections |-> IF k = section THEN v ELSE Undef] :
                v \in {Null, Str("x")} \cup
                      {ObjOf(section, v1, v2) : v1 \in UpdateFields, v2 \in UpdateFields}} :
           section \in Sections}

Thrown == [thrown |-> TRUE, value |-> [k \in Sections |-> Undef]]

Value(c) == [thrown |-> FALSE, value |-> c]

\* x.f = v on a section x: a TypeError on null and undefined, and on a string
\* too (the module is strict code).
Assignable(x) == x.t = "obj"

\* x.f, x?.f of a value that is there.
Get(x, f) == IF x.t = "obj" THEN x.o[f] ELSE NoField

\* part_003:41-53, GET /api/config: the body of the response, or the throw
\* of an assignment.
maskedConfig(config) ==
    IF ~Assignable(config["instapaper"]) \/ ~Assignable(config["translation"])
    THEN Thrown
    ELSE IF config["admin"].t = "str" THEN Thrown
    ELSE Value([k \in Sections |->
            IF k = "instapaper"
            THEN [config[k] EXCEPT !.o["password"] = StrField(MASK),
                                   !.o["consumer_secret"] = StrField(MASK)]
            ELSE IF k = "translation"
            THEN [config[k] EXCEPT !.o["api_key"] = StrField(MASK)]
            ELSE IF config[k].t = "obj"
            THEN [config[k] EXCEPT !.o["password"] = StrField(MASK),
                                   !.o["session_secret"] = NoField]
            ELSE config[k]])

\* part_003:148-163, deepMerge(target, source) over the sections and their
\* fields: a key of the source that holds an object is merged into an object
\* of the target, any other key of the source replaces that of the target.
deepMerge(target, source) ==
    [k \in Sections |->
        IF source[k].t = "undef" THEN target[k]
        ELSE IF source[k].t = "obj" /\ target[k].t = "obj"
        THEN Obj([f \in Fields |->
                    IF source[k].o[f].t = "undef" THEN target[k].o[f]
                    ELSE source[k].o[f]])
        ELSE source[k]]

\* part_003:68-76: a field the update carries as the mask is set back.
IsMask(updates, section, f) == Get(updates[section], f) = StrField(MASK)

\* The read of current.instapaper.password throws on a section that is null
\* or not there.
Readable(x) == x.t \in {"obj", "str"}

\* part_003:78-83.
PreserveAdmin(current, updates, m) ==
    IF m["admin"].t \in {"undef", "null"} THEN Value(m)
    ELSE IF ~Assignable(m["admin"]) THEN Thrown
    ELSE Value([m EXCEPT
            !["admin"].o["password"] =
                IF IsMask(updates, "admin", "password")
                THEN Get(current["admin"], "password") ELSE @,
            !["admin"].o["session_secret"] = Get(current["admin"], "session_secret")])

\* part_003:58-83: the config that is saved, or the throw.
mergedConfig(current, updates) ==
    LET merged == deepMerge(current, updates)
        Masked(section) == {f \in FieldsOf(section) : IsMask(updates, section, f)}
        Restored(m, section) ==
            [m EXCEPT ![section].o =
                [f \in Fields |-> IF f \in Masked(section)
                                  THEN Get(current[section], f) ELSE @[f]]]
    IN IF \E section \in {"instapaper", "translation"} :
            Masked(section) # {} /\ ~Readable(current[section])
       THEN Thrown
       ELSE PreserveAdmin(current, updates,
                Restored(Restored(merged, "instapaper"), "translation"))

NoConfigResponse == [route |-> "", status |-> 0, body |-> [k \in Sections |-> Undef]]

ConfigApiIdle ==
    /\ appConfig = [k \in Sections |-> Undef]
    /\ cres = NoConfigResponse

\* ---- the capture of the logs of the pipeline child -----------------------------

\* pipeline-runner.ts:39.
MAX_LOG_ENTRIES == 2000

\* The bytes of a stream: a letter, a space, CR, LF, and the two bytes of
\* the UTF-8 form of "é" (0xC3 0xA9).
AsciiBytes == {"a", " ", "\r", "\n"}

OutputBytes == AsciiBytes \cup {"C3", "A9"}

\* The child writes text: a 0xC3 is followed by its 0xA9, and a 0xA9 follows
\* its 0xC3.
WellFormed(bytes) ==
    \A i \in 1..Len(bytes) :
        /\ bytes[i] = "C3" => i < Len(bytes) /\ bytes[i + 1] = "A9"
        /\ bytes[i] = "A9" => i > 1 /\ bytes[i - 1] = "C3"

ChildOutputs ==
    {bytes \in UNION {[1..n -> OutputBytes] : n \in 0..MaxOutput} : WellFormed(bytes)}

\* scheduler.ts:63-65, chunk.toString("utf-8"): a sequence of bytes that is
\* no character becomes U+FFFD.
RECURSIVE toString(_)
toString(bytes) ==
    IF bytes = <<>> THEN <<>>
    ELSE IF Head(bytes) = "C3" /\ Len(bytes) >= 2 /\ bytes[2] = "A9"
    THEN <<"é">> \o toString(SubSeq(bytes, 3, Len(bytes)))
    ELSE IF Head(bytes) \in {"C3", "A9"} THEN <<"U+FFFD">> \o toString(Tail(bytes))
    ELSE <<Head(bytes)>> \o toString(Tail(bytes))

\* buffer.indexOf("\n"), counted from 1; 0: none.
indexOf(s, c) ==
    IF \E i \in 1..Len(s) : s[i] = c
    THEN CHOOSE i \in 1..Len(s) : s[i] = c /\ \A j \in 1..(i - 1) : s[j] # c
    ELSE 0

\* .replace(/\r$/, "")
stripCR(s) ==
    IF s # <<>> /\ s[Len(s)] = "\r" THEN SubSeq(s, 1, Len(s) - 1) ELSE s

\* String.prototype.trim over the white space of these texts.
RECURSIVE trimLine(_)
trimLine(s) ==
    IF s = <<>> THEN s
    ELSE IF Head(s) \in {" ", "\r", "\n"} THEN trimLine(Tail(s))
    ELSE IF s[Len(s)] \in {" ", "\r", "\n"} THEN trimLine(SubSeq(s, 1, Len(s) - 1))
    ELSE s

\* pipeline-runner.ts:46-58.
addLog(list, message) ==
    LET pushed == Append(list, message)
    IN IF Len(pushed) > MAX_LOG_ENTRIES
       THEN SubSeq(pushed, Len(pushed) - MAX_LOG_ENTRIES + 1, Len(pushed))
       ELSE pushed

\* scheduler.ts:70-78: the loop over the line feeds of the buffer.
RECURSIVE drain(_, _)
drain(buf, list) ==
    LET newlineIndex == indexOf(buf, "\n")
        line == stripCR(SubSeq(buf, 1, newlineIndex - 1))
    IN IF newlineIndex = 0 THEN [buffer |-> buf, entries |-> list]
       ELSE drain(SubSeq(buf, newlineIndex + 1, Len(buf)),
                  IF Len(trimLine(line)) > 0 THEN addLog(list, line) ELSE list)

\* scheduler.ts:62-79, the listener of "data".
onData(buf, list, bytes) == drain(buf \o toString(bytes), list)

\* scheduler.ts:81-86, the listener of "end".
onEnd(buf, list) ==
    LET line == trimLine(stripCR(buf))
    IN IF Len(line) > 0 THEN addLog(list, line) ELSE list

CaptureIdle ==
    /\ childOutput = <<>>
    /\ delivered = 0
    /\ streamState = "none"
    /\ buffer = <<>>
    /\ entries = <<>>

\* ---- the audio route -----------------------------------------------------------

\* server.ts:59, [a-zA-Z0-9_\-]: the letters and digits of these strings,
\* "_" and "-".
FilenameChars == {"a", "e", "A", "1", "2", "_", "-"}

\* server.ts:59, /^[a-zA-Z0-9_\-]+\.mp3$/.test(filename).
validFilename(filename) ==
    /\ Len(filename) >= 2
    /\ filename[Len(filename)] = <<".mp3", 1>>
    /\ \A i \in 1..(Len(filename) - 1) : filename[i][1] \in FilenameChars

\* server.ts:55-74, the status of GET /audio/:filename.  A name that passed
\* the pattern holds no "/" and no ".": the path stays within audioDir.
audioRoute(filename, exists) ==
    IF ~validFilename(filename) THEN 400
    ELSE IF exists THEN 200 ELSE 404

\* A name a client can ask for besides those of the episodes: "a b.mp3".
OtherNames == {<<<<"a", 1>>, <<" ", 1>>, <<"b", 1>>, <<".mp3", 1>>>>}

AudioIdle ==
    /\ audioReq = <<>>
    /\ audioRes = 0

LateIdle ==
    /\ PromptIdle
    /\ AnnounceIdle
    /\ RaceIdle
    /\ TtsIdle
    /\ AdminIdle
    /\ ConfigApiIdle
    /\ CaptureIdle
    /\ AudioIdle

MoreIdle ==
    /\ ChunksIdle /\ SynthIdle /\ NamesIdle /\ DiscoveryIdle /\ ConfigIdle
    /\ LateIdle

\* ---- initial state -------------------------------------------------------

PipelineAt(e, n) ==
    /\ entry = e
    /\ translate \in BOOLEAN
    /\ booted = FALSE
    /\ isRunning = FALSE
    /\ nextRun = n
    /\ src = [r \in RunIds |-> "none"]
    /\ cpc = [r \in RunIds |-> "unused"]
    /\ mem = [i \in Instances |-> EMPTY_STATE]
    /\ disk = EMPTY_STATE
    /\ bookmarks = [r \in RunIds |-> {}]
    /\ queue = [r \in RunIds |-> <<>>]
    /\ running = [r \in RunIds |-> <<>>]
    /\ idx = [r \in RunIds |-> 0]
    /\ task = [r \in RunIds |-> [i \in Ids |-> "none"]]
    /\ log = "none"
    /\ failedBefore = {}
    /\ resp = "none"

InitWith(e) ==
    /\ PipelineAt(e, 1)
    /\ StoreIdle
    /\ SortIdle
    /\ TranslatorIdle
    /\ MoreIdle

Init == InitWith("index")

InitLegacy == InitWith("legacy")

\* ---- scheduler -----------------------------------------------------------

GuardNone(flag) == FALSE

\* scheduler.ts:126 and :152, if (isRunning) return.
Guard(flag) == flag

\* spawnPipeline(): spawn("node", [runner]).
StartRun(s, pc) ==
    /\ nextRun <= MaxRuns
    /\ src' = [src EXCEPT ![nextRun] = s]
    /\ cpc' = [cpc EXCEPT ![nextRun] = pc]
    /\ nextRun' = nextRun + 1

\* scheduler.ts:125-142 and :151-168 up to the await.
Trigger(s) ==
    IF Guard(isRunning)
    THEN /\ log' = "skipping"
         /\ UNCHANGED <<isRunning, nextRun, src, cpc>>
    ELSE /\ isRunning' = TRUE
         /\ log' = "starting"
         /\ StartRun(s, IF entry = "index" THEN "spawned" ELSE "list")

\* index.ts main(): new StateManager, createServer, startScheduler, then the
\* initial run through triggerManualRun().
MainIndex ==
    /\ entry = "index"
    /\ ~booted
    /\ booted' = TRUE
    /\ mem' = [mem EXCEPT ![0] = disk]
    /\ Trigger("startup")
    /\ UNCHANGED <<others, entry, translate, disk, bookmarks, queue, running, idx,
                   task, failedBefore>>

\* part_004 main(): the initial run is pipeline() itself, not a trigger: the
\* flag is neither read nor set.
MainLegacy ==
    /\ entry = "legacy"
    /\ ~booted
    /\ booted' = TRUE
    /\ mem' = [mem EXCEPT ![0] = disk]
    /\ StartRun("startup", "list")
    /\ UNCHANGED <<others, entry, translate, isRunning, disk, bookmarks, queue,
                   running, idx, task, log, failedBefore>>

\* The cron callback.
CronTick ==
    /\ booted
    /\ ~Busy(0)
    /\ Trigger("cron")
    /\ UNCHANGED <<others, entry, translate, booted, mem, disk, bookmarks, queue,
                   running, idx, task, failedBefore>>

TriggerResponseSkipped(flag) == IF flag THEN "skipped" ELSE "started"

\* part_003:139, res.json({ status: "started", ... }), sent before
\* triggerRun() is called: it cannot depend on what the call does.
TriggerResponse(flag) == "started"

\* POST /api/trigger (part_003:138-143): the response, then triggerRun() ->
\* triggerManualRun() up to its await; the catch of :140-142 and the rest of
\* triggerManualRun run in HandlerResume.
ManualTrigger ==
    /\ booted
    /\ ~Busy(0)
    /\ resp' = TriggerResponse(isRunning)
    /\ Trigger("manual")
    /\ UNCHANGED <<notPipeline, entry, translate, booted, mem, disk, bookmarks,
                   queue, running, idx, task, failedBefore>>

\* child.on("error"): the child could not be spawned.
SpawnError(r) ==
    /\ cpc[r] = "spawned"
    /\ cpc' = [cpc EXCEPT ![r] = "spawnerr"]
    /\ UNCHANGED <<others, entry, translate, booted, isRunning, nextRun, src, mem,
                   disk, bookmarks, queue, running, idx, task, log,
                   failedBefore>>

ResetFlagOnSuccess(r) == IF cpc[r] = "exit0" THEN FALSE ELSE isRunning

\* The finally blocks of scheduler.ts:139-141 and :165-167.  The legacy main
\* awaits pipeline() itself: no handler of the scheduler awaits that run.
ResetFlag(r) ==
    IF entry = "legacy" /\ src[r] = "startup" THEN isRunning ELSE FALSE

\* spawnPipeline's promise settles (close with code 0: resolve; close with
\* another code, or error: reject) and the awaiting handler runs to its end.
HandlerResume(r) ==
    /\ Ended(r)
    /\ ~Busy(0)
    /\ cpc' = [cpc EXCEPT ![r] = IF cpc[r] = "exit0" THEN "closed_ok"
                                 ELSE "closed_failed"]
    /\ isRunning' = ResetFlag(r)
    /\ log' = IF cpc[r] = "exit0" THEN "completed" ELSE "failed"
    /\ src' = [src EXCEPT ![r] = "none"]
    /\ UNCHANGED <<others, entry, translate, booted, nextRun, mem, disk, bookmarks,
                   queue, running, idx, task, failedBefore>>

\* ---- pipeline child ------------------------------------------------------

\* pipeline-runner.ts main(): new StateManager(data_dir) reads state.json, then
\* runPipeline runs up to its first await, the listing.
ChildStart(r) ==
    /\ cpc[r] = "spawned"
    /\ cpc' = [cpc EXCEPT ![r] = "list"]
    /\ mem' = [mem EXCEPT ![r] = disk]
    /\ UNCHANGED <<others, entry, translate, booted, isRunning, nextRun, src, disk,
                   bookmarks, queue, running, idx, task, log, failedBefore>>

\* Run r ends as `how`, the memory of its StateManager being m: the locals of
\* runPipeline are gone, and with a child process its memory too.
End(r, how, m) ==
    /\ cpc' = [cpc EXCEPT ![r] = how]
    /\ mem' = [mem EXCEPT ![proc(r)] = IF entry = "index" THEN EMPTY_STATE ELSE m]
    /\ bookmarks' = [bookmarks EXCEPT ![r] = {}]
    /\ queue' = [queue EXCEPT ![r] = <<>>]
    /\ running' = [running EXCEPT ![r] = <<>>]
    /\ idx' = [idx EXCEPT ![r] = 0]
    /\ task' = [task EXCEPT ![r] = [i \in Ids |-> "none"]]
    /\ failedBefore' = {i \in Ids : task[r][i] \in Failed}

\* The child ends without running to its end (killed, out of memory): close
\* with a code other than 0.
ChildKilled(r) ==
    /\ cpc[r] \in {"list", "await", "check"}
    /\ End(r, "killed", mem[r])
    /\ UNCHANGED <<others, entry, translate, booted, isRunning, nextRun, src, disk,
                   log>>

\* worker.ts:54 or :90, then return; pipeline-runner.ts:18-25.  updateLastRun
\* saves; a throwing save rejects runPipeline and the runner exits with code 1.
Finish(r, ok) ==
    /\ disk' = save(updateLastRunMem(mem[proc(r)]), ok)
    /\ End(r, IF ok THEN "exit0" ELSE "exit1", updateLastRunMem(mem[proc(r)]))

\* client.getBookmarks throws: runPipeline rejects.
ListFail(r) ==
    /\ cpc[r] = "list"
    /\ ~Busy(proc(r))
    /\ End(r, "exit1", mem[proc(r)])
    /\ UNCHANGED <<others, entry, translate, booted, isRunning, nextRun, src, disk,
                   log>>

\* worker.ts:47-50.
NewBookmarks(r, S) == {b \in S : ~isProcessed(mem[proc(r)], b)}

\* worker.ts:44-75: the listing returned the bookmarks S.
ListDone(r, S, ok) ==
    /\ cpc[r] = "list"
    /\ ~Busy(proc(r))
    /\ IF NewBookmarks(r, S) = {}
       THEN Finish(r, ok)
       ELSE LET f == Fill(SeqOf(NewBookmarks(r, S)), <<>>, task[r])
            IN /\ ok
               /\ bookmarks' = [bookmarks EXCEPT ![r] = S]
               /\ queue' = [queue EXCEPT ![r] = f.queue]
               /\ running' = [running EXCEPT ![r] = f.running]
               /\ task' = [task EXCEPT ![r] = f.task]
               /\ cpc' = [cpc EXCEPT ![r] = "await"]
               /\ UNCHANGED <<mem, disk, idx, failedBefore>>
    /\ UNCHANGED <<others, entry, translate, booted, isRunning, nextRun, src, log>>

\* worker.ts:75: Promise.race(running) resolves, the removal loop starts at
\* i = running.length - 1.
LoopResume(r) ==
    /\ cpc[r] = "await"
    /\ \E i \in 1..Len(running[r]) : Settled(task[r][running[r][i]])
    /\ cpc' = [cpc EXCEPT ![r] = "check"]
    /\ idx' = [idx EXCEPT ![r] = Len(running[r])]
    /\ UNCHANGED <<others, entry, translate, booted, isRunning, nextRun, src, mem,
                   disk, bookmarks, queue, running, task, log, failedBefore>>

LoopCondQueueOnly(q, run) == Len(q) > 0

\* worker.ts:67, the outer while's condition.
LoopCond(q, run) == Len(q) > 0 \/ Len(run) > 0

\* worker.ts:77-86, one iteration; after the last one the outer while's
\* condition (:67), then either the dispatch and the next race (:68-75) or
\* updateLastRun and the return (:90).
CheckStep(r, ok) ==
    /\ cpc[r] = "check"
    /\ LET i == idx[r]
           run == IF SettledCheck(task[r][running[r][i]])
                  THEN Remove(running[r], i) ELSE running[r]
       IN IF i > 1
          THEN /\ ok
               /\ running' = [running EXCEPT ![r] = run]
               /\ idx' = [idx EXCEPT ![r] = i - 1]
               /\ UNCHANGED <<cpc, queue, task, mem, disk, bookmarks,
                              failedBefore>>
          ELSE IF LoopCond(queue[r], run)
               THEN LET f == Fill(queue[r], run, task[r])
                    IN /\ ok
                       /\ idx' = [idx EXCEPT ![r] = 0]
                       /\ queue' = [queue EXCEPT ![r] = f.queue]
                       /\ running' = [running EXCEPT ![r] = f.running]
                       /\ task' = [task EXCEPT ![r] = f.task]
                       /\ cpc' = [cpc EXCEPT ![r] = "await"]
                       /\ UNCHANGED <<mem, disk, bookmarks, failedBefore>>
               ELSE Finish(r, ok)
    /\ UNCHANGED <<others, entry, translate, booted, isRunning, nextRun, src, log>>

\* ---- processBookmark -----------------------------------------------------

SetStage(r, id, st) == task' = [task EXCEPT ![r][id] = st]

\* worker.ts:107-124: getBookmarkText and parseArticle; then the title
\* translation when configured, else synthesis.
FetchDone(r, id, ok) ==
    /\ InFlight(r, id) /\ task[r][id] = "fetch"
    /\ ~Busy(proc(r))
    /\ SetStage(r, id, IF ~ok THEN "failed"
                       ELSE IF translate THEN "title" ELSE "synth")
    /\ UNCHANGED <<others, entry, translate, booted, isRunning, nextRun, src, cpc,
                   mem, disk, bookmarks, queue, running, idx, log,
                   failedBefore>>

\* worker.ts:117.
TitleDone(r, id, ok) ==
    /\ InFlight(r, id) /\ task[r][id] = "title"
    /\ ~Busy(proc(r))
    /\ SetStage(r, id, IF ok THEN "body" ELSE "failed")
    /\ UNCHANGED <<others, entry, translate, booted, isRunning, nextRun, src, cpc,
                   mem, disk, bookmarks, queue, running, idx, log,
                   failedBefore>>

\* worker.ts:118-129.
BodyDone(r, id, ok) ==
    /\ InFlight(r, id) /\ task[r][id] = "body"
    /\ ~Busy(proc(r))
    /\ SetStage(r, id, IF ok THEN "synth" ELSE "failed")
    /\ UNCHANGED <<others, entry, translate, booted, isRunning, nextRun, src, cpc,
                   mem, disk, bookmarks, queue, running, idx, log,
                   failedBefore>>

CommitsAlways(ok) == TRUE

\* worker.ts:129-139: state.addProcessed is reached only when synthesize
\* resolved.
Commits(ok) == ok

\* worker.ts:129-144: synthesize settles; on success addProcessed, whose save
\* may throw into the catch of processBookmark.
SynthDone(r, id, ok, saveOk) ==
    /\ InFlight(r, id) /\ task[r][id] = "synth"
    /\ ~Busy(proc(r))
    /\ IF Commits(ok)
       THEN LET m == addProcessedMem(mem[proc(r)], Episode(id))
            IN /\ mem' = [mem EXCEPT ![proc(r)] = m]
               /\ disk' = save(m, saveOk)
               /\ SetStage(r, id, IF ~saveOk THEN "fail_save"
                                  ELSE IF ok THEN "done" ELSE "failed")
       ELSE /\ saveOk
            /\ SetStage(r, id, "failed")
            /\ UNCHANGED <<mem, disk>>
    /\ UNCHANGED <<others, entry, translate, booted, isRunning, nextRun, src, cpc,
                   bookmarks, queue, running, idx, log, failedBefore>>

\* ---- specifications ------------------------------------------------------

Next ==
    \/ MainIndex
    \/ CronTick
    \/ ManualTrigger
    \/ \E r \in RunIds :
        \/ SpawnError(r)
        \/ ChildStart(r)
        \/ ChildKilled(r)
        \/ HandlerResume(r)
        \/ ListFail(r)
        \/ LoopResume(r)
        \/ \E ok \in BOOLEAN : CheckStep(r, ok)
        \/ \E S \in SUBSET Ids, ok \in BOOLEAN : ListDone(r, S, ok)
        \/ \E id \in Ids, ok \in BOOLEAN :
            \/ FetchDone(r, id, ok)
            \/ TitleDone(r, id, ok)
            \/ BodyDone(r, id, ok)
            \/ \E saveOk \in BOOLEAN : SynthDone(r, id, ok, saveOk)

Spec == Init /\ [][Next]_vars

\* The server of part_004 and part_005: runs execute in the server process.
NextLegacy ==
    \/ MainLegacy
    \/ CronTick
    \/ ManualTrigger
    \/ \E r \in RunIds :
        \/ HandlerResume(r)
        \/ ListFail(r)
        \/ LoopResume(r)
        \/ \E ok \in BOOLEAN : CheckStep(r, ok)
        \/ \E S \in SUBSET Ids, ok \in BOOLEAN : ListDone(r, S, ok)
        \/ \E id \in Ids, ok \in BOOLEAN :
            \/ FetchDone(r, id, ok)
            \/ TitleDone(r, id, ok)
            \/ BodyDone(r, id, ok)
            \/ \E saveOk \in BOOLEAN : SynthDone(r, id, ok, saveOk)

SpecLegacy == InitLegacy /\ [][NextLegacy]_vars

\* What the scheduling of a Node process guarantees: a runnable continuation
\* runs (the removal loop, the handler that awaits the child), a spawned child
\* either starts or fails to spawn, and every pending call of an item pipeline
\* returns.  Triggers and the death of a child are left to the environment.
Fairness ==
    \A r \in RunIds :
        /\ WF_vars(ChildStart(r) \/ SpawnError(r))
        /\ WF_vars(HandlerResume(r))
        /\ WF_vars(LoopResume(r))
        /\ WF_vars(\E ok \in BOOLEAN : CheckStep(r, ok))
        /\ \A id \in Ids :
            /\ WF_vars(\E ok \in BOOLEAN : FetchDone(r, id, ok))
            /\ WF_vars(\E ok \in BOOLEAN : TitleDone(r, id, ok))
            /\ WF_vars(\E ok \in BOOLEAN : BodyDone(r, id, ok))
            /\ WF_vars(\E ok, saveOk \in BOOLEAN : SynthDone(r, id, ok, saveOk))

SpecFair == Spec /\ Fairness

\* ---- state store: the calls of a StateManager ------------------------------

Returned(op, i, id) == [NoRet EXCEPT !.op = op, !.inst = i, !.id = id]

Threw(op, i, id) == [Returned(op, i, id) EXCEPT !.thrown = TRUE]

\* The calls of one instance are synchronous: none starts inside a save().
Callable(i) == sm[i].live /\ (i = Writer => spos = "idle")

\* state.ts:14-18, new StateManager(dataDir).
Construct(i) ==
    /\ ~sm[i].live
    /\ sm' = [sm EXCEPT ![i] = [live |-> TRUE, state |-> load(file)]]
    /\ ret' = Returned("construct", i, 0)
    /\ UNCHANGED <<notStore, file, tmpFile, spos, pending, uncommitted>>

\* state.ts:37-39: this.state as it is, no load().
IsProcessed(i, id) ==
    /\ Callable(i)
    /\ ret' = IF HasMap(sm[i].state)
              THEN [Returned("isProcessed", i, id) EXCEPT
                        !.flag = isProcessed(sm[i].state.val, id)]
              ELSE Threw("isProcessed", i, id)
    /\ UNCHANGED <<notStore, file, tmpFile, sm, spos, pending, uncommitted>>

\* state.ts:47-53: load(), then Object.values of the mapping.
GetProcessedBookmarks(i) ==
    /\ Callable(i)
    /\ sm' = [sm EXCEPT ![i].state = load(file)]
    /\ ret' = IF HasMap(load(file))
              THEN [Returned("getProcessedBookmarks", i, 0) EXCEPT
                        !.keys = Keys(load(file).val)]
              ELSE Threw("getProcessedBookmarks", i, 0)
    /\ UNCHANGED <<notStore, file, tmpFile, spos, pending, uncommitted>>

\* state.ts:55-58: load(), then lastRun.
GetLastRun(i) ==
    /\ Callable(i)
    /\ sm' = [sm EXCEPT ![i].state = load(file)]
    /\ ret' = [Returned("getLastRun", i, 0) EXCEPT !.last = load(file).val.lastRun]
    /\ UNCHANGED <<notStore, file, tmpFile, spos, pending, uncommitted>>

\* state.ts:30-33, save() up to the rename, for the call `op` about `id` (0:
\* updateLastRun) that has made `parsed` the memory of the writer.  how = "ok":
\* the file at tmpPath holds the whole aggregate; "throw": writeFileSync throws
\* (disk full) and leaves a partial file, the error goes to the caller;
\* "crash": the process dies inside the write.
WriteTmp(op, id, parsed, how) ==
    /\ IF tmpPath = "state.json.tmp"
       THEN /\ tmpFile' = IF how = "ok" THEN parsed ELSE Unparseable
            /\ file' = file
       ELSE /\ file' = IF how = "ok" THEN parsed ELSE Unparseable
            /\ tmpFile' = tmpFile
    /\ sm' = [sm EXCEPT ![Writer] =
                IF how = "crash" THEN Dead ELSE [live |-> TRUE, state |-> parsed]]
    /\ spos' = IF how = "ok" THEN "written" ELSE "idle"
    /\ pending' = IF how = "ok" THEN id ELSE 0
    /\ ret' = IF how = "throw" THEN Threw(op, Writer, id) ELSE NoRet
    /\ uncommitted' = IF how = "throw" /\ id # 0 /\ ~Persisted(id)
                      THEN uncommitted \cup {id} ELSE uncommitted

\* state.ts:41-45 up to the rename of save().
AddProcessed(id, how) ==
    /\ Callable(Writer)
    /\ IF HasMap(sm[Writer].state)
       THEN WriteTmp("addProcessed", id,
                     Json(addProcessedMem(sm[Writer].state.val, Episode(id))), how)
       ELSE /\ how = "throw"
            /\ ret' = Threw("addProcessed", Writer, id)
            /\ uncommitted' = uncommitted \cup {id}
            /\ UNCHANGED <<file, tmpFile, sm, spos, pending>>
    /\ UNCHANGED notStore

\* state.ts:60-63 up to the rename of save().
UpdateLastRun(how) ==
    /\ Callable(Writer)
    /\ WriteTmp("updateLastRun", 0,
                [sm[Writer].state EXCEPT !.val = updateLastRunMem(@)], how)
    /\ UNCHANGED notStore

\* state.ts:34, renameSync(tmpPath, this.filePath): the file is replaced in
\* one step, or the rename throws and the error goes to the caller.
Rename(ok) ==
    /\ spos = "written"
    /\ spos' = "idle"
    /\ pending' = 0
    /\ IF ok
       THEN /\ file' = IF tmpPath = "state.json.tmp" THEN tmpFile ELSE file
            /\ tmpFile' = IF tmpPath = "state.json.tmp" THEN Missing ELSE tmpFile
            /\ ret' = Returned("saved", Writer, pending)
            /\ uncommitted' = uncommitted \ {pending}
       ELSE /\ ret' = Threw("save", Writer, pending)
            /\ uncommitted' = IF pending # 0 /\ ~Persisted(pending)
                              THEN uncommitted \cup {pending} ELSE uncommitted
            /\ UNCHANGED <<file, tmpFile>>
    /\ UNCHANGED <<notStore, sm>>

\* The process of the writer dies, between the write and the rename too: its
\* memory is gone, the files stay as they are.
Crash ==
    /\ sm[Writer].live
    /\ sm' = [sm EXCEPT ![Writer] = Dead]
    /\ spos' = "idle"
    /\ pending' = 0
    /\ ret' = NoRet
    /\ UNCHANGED <<notStore, file, tmpFile, uncommitted>>

\* A data_dir as a StateManager can find it: no state.json, one that does not
\* parse, one that parses to an object without the mapping, or a saved state.
\* The clock stands still in these behaviours: Now = 1.
InitStore ==
    /\ PipelineAt("index", 2)
    /\ file \in {Missing, Unparseable, NoMap(EMPTY_STATE), Json(EMPTY_STATE)}
    /\ tmpFile = Missing
    /\ sm = [i \in StoreInsts |-> Dead]
    /\ spos = "idle"
    /\ pending = 0
    /\ ret = NoRet
    /\ uncommitted = {}
    /\ SortIdle
    /\ TranslatorIdle
    /\ MoreIdle

NextStore ==
    \/ Crash
    \/ \E i \in StoreInsts :
        \/ Construct(i)
        \/ GetProcessedBookmarks(i)
        \/ GetLastRun(i)
        \/ \E id \in StoreIds : IsProcessed(i, id)
    \/ \E how \in {"ok", "throw", "crash"} :
        \/ UpdateLastRun(how)
        \/ \E id \in StoreIds : AddProcessed(id, how)
    \/ \E ok \in BOOLEAN : Rename(ok)

SpecStore == InitStore /\ [][NextStore]_vars

\* ---- episode list: the calls ----------------------------------------------

\* addProcessed({bookmarkId: id, pubDate: date, ...}).
SortAdd(id, date) ==
    /\ Len(SetEntry(eps, [id |-> id, pubDate |-> date])) <= MaxEpisodes
    /\ eps' = SetEntry(eps, [id |-> id, pubDate |-> date])
    /\ UNCHANGED <<notSort, listed>>

\* getProcessedBookmarks(): this.state is reloaded from the file save() wrote.
SortList ==
    /\ eps' = OwnPropertyOrder(eps)
    /\ listed' = getProcessedBookmarks(eps)
    /\ UNCHANGED notSort

InitSort ==
    /\ PipelineAt("index", 1)
    /\ StoreIdle
    /\ SortIdle
    /\ TranslatorIdle
    /\ MoreIdle

NextSort ==
    \/ SortList
    \/ \E id \in SortIds, date \in SortDates : SortAdd(id, date)

SpecSort == InitSort /\ [][NextSort]_vars

\* ---- translator: the calls ------------------------------------------------

\* translateText (translator.ts:35-52) or translateTitle (:62-74) up to the
\* first fetch: the skip, else the first callChatCompletions.  The text is
\* given by the language franc detects and the number of its chunks.
TranslateCall(fn, skip, target, detected, chunks) ==
    /\ tphase = "idle"
    /\ fn = "title" => chunks = 1
    /\ item.stage = (IF fn = "title" THEN "none" ELSE "body")
    /\ item' = [item EXCEPT !.stage = fn]
    /\ LET call == [fn |-> fn, skip |-> skip, target |-> target,
                    detected |-> detected, chunks |-> chunks]
       IN /\ tcall' = call
          /\ IF Skips(call)
             THEN /\ tphase' = "returned"
                  /\ tresult' = [NoResult EXCEPT !.kind = "input"]
                  /\ chunk' = 0
             ELSE /\ tphase' = "request"
                  /\ tresult' = NoResult
                  /\ chunk' = 1
    /\ attempt' = 0
    /\ requests' = 0
    /\ total' = 0
    /\ delays' = <<>>
    /\ lastError' = "none"
    /\ failures' = <<>>
    /\ UNCHANGED notTranslator

\* translator.ts:92-128: the fetch of this attempt settles.  ok: the response
\* is returned (:120), to translateText's loop when chunks are left, else to
\* the caller; ~ok (status, network error, timeout): the catch, which starts
\* the backoff timer.
FetchSettles(ok) ==
    /\ tphase = "request"
    /\ requests' = IF ok /\ chunk < tcall.chunks THEN 0 ELSE requests + 1
    /\ total' = total + 1
    /\ IF ok
       THEN IF chunk < tcall.chunks
            THEN /\ chunk' = chunk + 1
                 /\ attempt' = 0
                 /\ delays' = <<>>
                 /\ lastError' = "none"
                 /\ failures' = <<>>
                 /\ UNCHANGED <<tphase, tresult>>
            ELSE /\ tphase' = "returned"
                 /\ tresult' = [NoResult EXCEPT !.kind = "translated",
                                                !.last = requests + 1]
                 /\ UNCHANGED <<chunk, attempt, delays, lastError, failures>>
       ELSE /\ tphase' = "sleep"
            /\ delays' = Append(delays, Backoff(attempt))
            /\ \E err \in Failures :
                /\ lastError' = CatchError(lastError, err)
                /\ failures' = Append(failures, err)
            /\ UNCHANGED <<chunk, attempt, tresult>>
    /\ UNCHANGED <<notTranslator, tcall, item>>

\* translator.ts:127-133: the timer fires; attempt++, then the next attempt or
\* the throw after the loop.
TimerFires ==
    /\ tphase = "sleep"
    /\ attempt' = attempt + 1
    /\ IF attempt + 1 < MaxAttempts
       THEN /\ tphase' = "request"
            /\ UNCHANGED tresult
       ELSE /\ tphase' = "threw"
            /\ tresult' = [kind |-> "error", last |-> requests,
                           cause |-> lastError]
    /\ UNCHANGED <<notTranslator, tcall, chunk, requests, total, delays,
                   lastError, failures, item>>

\* worker.ts:117-129 and :142-144: processBookmark has the outcome of the
\* call.  A title that returned is followed by translateText, a body that
\* returned by the synthesis; an error is caught at :142 and ends the item.
TranslateDone ==
    /\ tphase \in {"returned", "threw"}
    /\ item' = IF tphase = "threw" THEN [item EXCEPT !.stage = "failed"]
               ELSE IF tcall.fn = "title"
               THEN [stage |-> "body", title |-> tresult.kind]
               ELSE [item EXCEPT !.stage = "synth"]
    /\ lastError' = "none"
    /\ failures' = <<>>
    /\ tcall' = NoCall
    /\ tphase' = "idle"
    /\ chunk' = 0
    /\ attempt' = 0
    /\ requests' = 0
    /\ total' = 0
    /\ delays' = <<>>
    /\ tresult' = NoResult
    /\ UNCHANGED notTranslator

\* worker.ts:129-141: the synthesis settles; addProcessed follows when it
\* resolved, the catch of :142 when it rejected.
ItemSynth(ok) ==
    /\ tphase = "idle"
    /\ item.stage = "synth"
    /\ item' = [item EXCEPT !.stage = IF Commits(ok) THEN "committed" ELSE "failed"]
    /\ UNCHANGED <<notTranslator, tcall, tphase, chunk, attempt, requests, total,
                   delays, tresult, lastError, failures>>

\* processBookmark has returned; the pool takes the next bookmark.
ItemEnd ==
    /\ tphase = "idle"
    /\ item.stage \in {"committed", "failed"}
    /\ item' = NoItem
    /\ UNCHANGED <<notTranslator, tcall, tphase, chunk, attempt, requests, total,
                   delays, tresult, lastError, failures>>

InitTranslator ==
    /\ PipelineAt("index", 1)
    /\ StoreIdle
    /\ SortIdle
    /\ TranslatorIdle
    /\ MoreIdle

NextTranslator ==
    \/ TimerFires
    \/ TranslateDone
    \/ ItemEnd
    \/ \E ok \in BOOLEAN : ItemSynth(ok)
    \/ \E ok \in BOOLEAN : FetchSettles(ok)
    \/ \E fn \in {"text", "title"}, skip \in BOOLEAN, target \in TargetNames,
          detected \in DetectedCodes, chunks \in 1..MaxChunks :
        TranslateCall(fn, skip, target, detected, chunks)

SpecTranslator == InitTranslator /\ [][NextTranslator]_vars

\* ---- long bodies: the calls ------------------------------------------------

\* The idle values of the specifications other than that of the long bodies.
BaseIdle ==
    /\ PipelineAt("index", 1)
    /\ StoreIdle
    /\ SortIdle
    /\ TranslatorIdle

\* translator.ts:48-49: translateText(t) past the skip.  One call of the
\* functions specified on their own is followed at a time.
TranslateLong(t) ==
    /\ cphase = "idle" /\ textChunks = <<>>
    /\ text' = t
    /\ chunkList' = splitIntoChunks(t, MAX_CHARS_PER_CHUNK)
    /\ sent' = <<>>
    /\ translated' = <<>>
    /\ joined' = <<>>
    /\ cphase' = "loop"
    /\ UNCHANGED notChunks

\* translator.ts:51-56: callChatCompletions(chunk) settles: it returned the
\* translation (after the last chunk the join and the return follow), or it
\* threw after its attempts.
ChunkSettles(ok) ==
    /\ cphase = "loop"
    /\ LET c == chunkList[Len(translated) + 1]
       IN /\ sent' = Append(sent, c)
          /\ IF ok
             THEN /\ translated' = Append(translated, Translation(c))
                  /\ IF Len(translated') = Len(chunkList)
                     THEN /\ cphase' = "returned"
                          /\ joined' = join(translated')
                     ELSE UNCHANGED <<cphase, joined>>
             ELSE /\ cphase' = "threw"
                  /\ UNCHANGED <<translated, joined>>
    /\ UNCHANGED <<notChunks, text, chunkList>>

\* The caller has the outcome.
LongDone ==
    /\ cphase \in {"returned", "threw"}
    /\ text' = <<>>
    /\ chunkList' = <<>>
    /\ sent' = <<>>
    /\ translated' = <<>>
    /\ joined' = <<>>
    /\ cphase' = "idle"
    /\ UNCHANGED notChunks

InitChunks == BaseIdle /\ MoreIdle

NextChunks ==
    \/ LongDone
    \/ \E t \in Texts : TranslateLong(t)
    \/ \E ok \in BOOLEAN : ChunkSettles(ok)

SpecChunks == InitChunks /\ [][NextChunks]_vars

\* ---- synthesis: the call and its worker -----------------------------------

\* tts.ts:23-62 and feed.ts:82-92: synthesize spawns the worker, which reads
\* its input and splits the text into n chunks.
Synthesize(n) ==
    /\ sphase = "idle"
    /\ sphase' = "spawned"
    /\ wpc' = "synth"
    /\ nChunks' = n
    /\ partSizes' = <<>>
    /\ partFiles' = {}
    /\ unlinkFailed' = {}
    /\ outSize' = -1
    /\ stdout' = -1
    /\ exitCode' = 0
    /\ sresult' = NoSynthResult
    /\ UNCHANGED <<notSynth, prevResult>>

\* feed.ts:168-171: main() rejected, process.exit(1).
Fatal ==
    /\ wpc' = "exited"
    /\ exitCode' = 1

\* feed.ts:94-104 and :117-128: the engine answers for the chunk in turn.
\* ok: the audio of `size` bytes is written, to outputPath when the text is
\* one chunk, else to the chunk's .partN.mp3; ~ok: synthesizeChunk throws.
\* An engine that does not answer leaves the worker at this await.
ChunkSynthesized(ok, size) ==
    /\ wpc = "synth"
    /\ IF ~ok
       THEN /\ Fatal
            /\ UNCHANGED <<partSizes, partFiles, outSize>>
       ELSE IF nChunks = 1
       THEN /\ outSize' = size
            /\ wpc' = "stat"
            /\ UNCHANGED <<partSizes, partFiles, exitCode>>
       ELSE /\ partSizes' = Append(partSizes, size)
            /\ partFiles' = partFiles \cup {Len(partSizes)}
            /\ wpc' = IF Len(partSizes') = nChunks THEN "concat" ELSE "synth"
            /\ UNCHANGED <<outSize, exitCode>>
    /\ UNCHANGED <<notSynth, sphase, nChunks, unlinkFailed, stdout, sresult,
                   prevResult>>

\* feed.ts:106-107: the chunk files are read and written as one file.
Concat(ok) ==
    /\ wpc = "concat"
    /\ IF ok
       THEN /\ outSize' = Sum(partSizes)
            /\ wpc' = "cleanup"
            /\ UNCHANGED exitCode
       ELSE /\ Fatal
            /\ UNCHANGED outSize
    /\ UNCHANGED <<notSynth, sphase, nChunks, partSizes, partFiles, unlinkFailed,
                   stdout, sresult, prevResult>>

\* feed.ts:108: unlink of every chunk file; F: those whose unlink throws,
\* which the catch swallows.
Cleanup(F) ==
    /\ wpc = "cleanup"
    /\ F \subseteq partFiles
    /\ partFiles' = F
    /\ unlinkFailed' = F
    /\ wpc' = "stat"
    /\ UNCHANGED <<notSynth, sphase, nChunks, partSizes, outSize, stdout,
                   exitCode, sresult, prevResult>>

\* feed.ts:112-115: stat, the size goes to stdout, main returns and the
\* worker exits with code 0.
Stat ==
    /\ wpc = "stat"
    /\ stdout' = outSize
    /\ wpc' = "exited"
    /\ exitCode' = 0
    /\ UNCHANGED <<notSynth, sphase, nChunks, partSizes, partFiles, unlinkFailed,
                   outSize, sresult, prevResult>>

\* The worker is killed (a signal, out of memory): close with code null.
WorkerKilled ==
    /\ wpc \in {"synth", "concat", "cleanup", "stat"}
    /\ wpc' = "exited"
    /\ exitCode' = 2
    /\ UNCHANGED <<notSynth, sphase, nChunks, partSizes, partFiles, unlinkFailed,
                   outSize, stdout, sresult, prevResult>>

\* tts.ts:38-51, child.on("close").
Close ==
    /\ sphase = "spawned"
    /\ wpc = "exited"
    /\ IF exitCode # 0 \/ stdout = -1
       THEN /\ sphase' = "rejected"
            /\ sresult' = [NoSynthResult EXCEPT !.kind = "error"]
       ELSE /\ sphase' = "resolved"
            /\ sresult' = [kind |-> "duration", size |-> stdout,
                           duration |-> estimatedDuration(stdout)]
    /\ UNCHANGED <<notSynth, wpc, nChunks, partSizes, partFiles, unlinkFailed,
                   outSize, stdout, exitCode, prevResult>>

\* worker.ts:129: processBookmark has the outcome; the next synthesize is
\* for another outputPath.
SynthReturn ==
    /\ sphase \in {"resolved", "rejected"}
    /\ prevResult' = IF sphase = "resolved" THEN sresult ELSE prevResult
    /\ sphase' = "idle"
    /\ wpc' = "none"
    /\ nChunks' = 0
    /\ partSizes' = <<>>
    /\ partFiles' = {}
    /\ unlinkFailed' = {}
    /\ outSize' = -1
    /\ stdout' = -1
    /\ exitCode' = 0
    /\ sresult' = NoSynthResult
    /\ UNCHANGED notSynth

InitSynth == BaseIdle /\ MoreIdle

NextSynth ==
    \/ Stat
    \/ WorkerKilled
    \/ Close
    \/ SynthReturn
    \/ \E n \in 1..MaxParts : Synthesize(n)
    \/ \E ok \in BOOLEAN, size \in AudioSizes : ChunkSynthesized(ok, size)
    \/ \E ok \in BOOLEAN : Concat(ok)
    \/ \E F \in SUBSET (0..(MaxParts - 1)) : Cleanup(F)

SpecSynth == InitSynth /\ [][NextSynth]_vars

\* What the worker and its parent do by themselves: the file operations of
\* the worker end, an exited worker is seen by the close handler.  Nothing in
\* tts.ts or feed.ts bounds the wait for the engine: no step is owed there.
FairnessSynth ==
    /\ WF_vars(\E ok \in BOOLEAN : Concat(ok))
    /\ WF_vars(\E F \in SUBSET (0..(MaxParts - 1)) : Cleanup(F))
    /\ WF_vars(Stat)
    /\ WF_vars(Close)

SpecSynthFair == SpecSynth /\ FairnessSynth

\* ---- audio names: the calls -----------------------------------------------

\* worker.ts:127, generateFilename(id, translatedTitle) for an item, and
\* again for another item.
GenerateFilename(bookmarkId, title) ==
    /\ fname2 = NoName
    /\ LET made == [id |-> bookmarkId, safe |-> safe(title),
                    name |-> generateFilename(bookmarkId, title)]
       IN IF fname1 = NoName
          THEN fname1' = made /\ UNCHANGED fname2
          ELSE fname2' = made /\ UNCHANGED fname1
    /\ UNCHANGED notNames

\* The two names are forgotten.
ForgetNames ==
    /\ fname2 # NoName
    /\ fname1' = NoName
    /\ fname2' = NoName
    /\ UNCHANGED notNames

InitNames == BaseIdle /\ MoreIdle

NextNames ==
    \/ ForgetNames
    \/ \E bookmarkId \in FileIds, title \in Titles :
        GenerateFilename(bookmarkId, title)

SpecNames == InitNames /\ [][NextNames]_vars

\* ---- discovery: a run up to its first dispatch ----------------------------

\* worker.ts:19-31 or :44: runPipeline with n configured tags, up to the
\* await of the first getBookmarks.
StartDiscovery(n) ==
    /\ dphase = "idle"
    /\ dphase' = "listing"
    /\ tagCount' = n
    /\ tagIdx' = 0
    /\ taggedBookmarks' = <<>>
    /\ matched' = {}
    /\ relisted' = {}
    /\ dbookmarks' = <<>>
    /\ dqueue' = <<>>
    /\ drunning' = <<>>
    /\ dsettled' = {}
    /\ startProcessed' = processedIds
    /\ listFailed' = FALSE
    /\ UNCHANGED <<notDiscovery, processedIds>>

\* worker.ts:31-75: a getBookmarks settles.  It rejected: runPipeline
\* rejects.  It returned `list`: the next tag is listed; after the last
\* listing the bookmarks are deduplicated (with tags; taggedBookmarks goes
\* out of scope at :43), the processed ones are filtered out, and either nothing is new and the run returns (:52-56) or the
\* first items are dispatched (:64-72).
Listed(ok, list) ==
    /\ dphase = "listing"
    /\ listFailed' = ~ok
    /\ IF ListingThrows(ok)
       THEN /\ dphase' = "rejected"
            /\ UNCHANGED <<tagIdx, taggedBookmarks, matched, relisted,
                           dbookmarks, dqueue, drunning>>
       ELSE LET got == IF ok THEN list ELSE <<>>
                all == taggedBookmarks \o got
                bm == IF tagCount > 0 THEN dedupe(all) ELSE all
                f == Fill(newBookmarks(bm, processedIds), <<>>,
                          [i \in Ids |-> "none"])
            IN /\ taggedBookmarks' = IF tagCount > 0 /\ tagIdx + 1 >= tagCount
                                      THEN <<>> ELSE all
               /\ matched' = matched \cup {got[i] : i \in 1..Len(got)}
               /\ relisted' =
                    relisted \cup ({got[i] : i \in 1..Len(got)} \cap matched)
               /\ tagIdx' = tagIdx + 1
               /\ IF tagIdx + 1 < tagCount
                  THEN UNCHANGED <<dphase, dbookmarks, dqueue, drunning>>
                  ELSE /\ dbookmarks' = bm
                       /\ dqueue' = f.queue
                       /\ drunning' = f.running
                       /\ dphase' = IF f.running = <<>> THEN "returned"
                                    ELSE "await"
    /\ UNCHANGED <<notDiscovery, tagCount, dsettled, processedIds,
                   startProcessed>>

\* worker.ts:94-145: the processBookmark at position i of running settles,
\* with its episode committed (ok) or in its catch.
ItemSettles(i, ok) ==
    /\ dphase = "await"
    /\ i \in 1..Len(drunning) /\ i \notin dsettled
    /\ dsettled' = dsettled \cup {i}
    /\ processedIds' = IF ok THEN processedIds \cup {drunning[i]}
                       ELSE processedIds
    /\ UNCHANGED <<notDiscovery, dphase, tagCount, tagIdx, taggedBookmarks,
                   matched, relisted, dbookmarks, dqueue, drunning,
                   startProcessed, listFailed>>

\* The run is over: runPipeline returned or rejected and the runner exited
\* (pipeline-runner.ts:18-25), or the process of a run in flight was killed.
DiscoveryEnds ==
    /\ dphase \in {"listing", "await", "returned", "rejected"}
    /\ dphase' = "idle"
    /\ tagCount' = 0
    /\ tagIdx' = 0
    /\ taggedBookmarks' = <<>>
    /\ matched' = {}
    /\ relisted' = {}
    /\ dbookmarks' = <<>>
    /\ dqueue' = <<>>
    /\ drunning' = <<>>
    /\ dsettled' = {}
    /\ startProcessed' = {}
    /\ listFailed' = FALSE
    /\ UNCHANGED <<notDiscovery, processedIds>>

InitDiscovery == BaseIdle /\ MoreIdle

NextDiscovery ==
    \/ DiscoveryEnds
    \/ \E n \in 0..MaxTags : StartDiscovery(n)
    \/ \E ok \in BOOLEAN, list \in BookmarkLists : Listed(ok, list)
    \/ \E i \in 1..MAX_CONCURRENCY, ok \in BOOLEAN : ItemSettles(i, ok)

SpecDiscovery == InitDiscovery /\ [][NextDiscovery]_vars

\* ---- configuration: startup -----------------------------------------------

\* index.ts:6-38: main() with the file and the environment it finds.
\* loadConfig returned: the StateManager, the server, the scheduler and the
\* initial run are started.  loadConfig threw: main() rejects and the catch
\* of :35-38 exits with code 1.
Main ==
    /\ mphase = "off"
    /\ \E yamlFile \in ConfigFiles, env \in Environments :
        /\ cfgFile' = yamlFile
        /\ cfgEnv' = env
        /\ loaded' = loadConfig(yamlFile, env)
        /\ IF loadConfig(yamlFile, env).kind = "config"
           THEN /\ mphase' = "serving"
                /\ started' = {"state", "server", "scheduler", "run"}
           ELSE /\ mphase' = "exited"
                /\ started' = {}
    /\ UNCHANGED notConfig

\* The process is stopped, or has exited, and is started again.
Restart ==
    /\ mphase # "off"
    /\ cfgFile' = [kind |-> "ENOENT", vals |-> NoFields]
    /\ cfgEnv' = NoEnv
    /\ loaded' = NotLoaded
    /\ mphase' = "off"
    /\ started' = {}
    /\ UNCHANGED notConfig

InitConfig == BaseIdle /\ MoreIdle

NextConfig ==
    \/ Restart
    \/ Main

SpecConfig == InitConfig /\ [][NextConfig]_vars

\* ---- prompts: a request of a short text ------------------------------------

\* translator.ts:35-75, :77-107: translateTitle, or translateText of a text
\* of one chunk, when no skip applies: callChatCompletions up to the await of
\* its first fetch.
PromptCall(isTitle, template, lang) ==
    /\ pphase = "idle"
    /\ pcfg' = [isTitle |-> isTitle, template |-> template,
                target_language |-> lang]
    /\ pphase' = "request"
    /\ pattempt' = 0
    /\ psent' = <<systemPrompt(pcfg')>>
    /\ UNCHANGED notPrompt

\* translator.ts:109-133: the fetch settles.  ok: the translation is
\* returned.  Else the catch, the backoff and the next attempt with the same
\* system prompt, or the throw after the third.
PromptSettles(ok) ==
    /\ pphase = "request"
    /\ IF ok
       THEN pphase' = "returned" /\ UNCHANGED <<pattempt, psent>>
       ELSE /\ pattempt' = pattempt + 1
            /\ IF pattempt + 1 < MaxAttempts
               THEN /\ pphase' = "request"
                    /\ psent' = Append(psent, systemPrompt(pcfg))
               ELSE pphase' = "threw" /\ UNCHANGED psent
    /\ UNCHANGED <<notPrompt, pcfg>>

\* The caller has the result.
PromptDone ==
    /\ pphase \in {"returned", "threw"}
    /\ pcfg' = NoPromptCall
    /\ pphase' = "idle"
    /\ pattempt' = 0
    /\ psent' = <<>>
    /\ UNCHANGED notPrompt

InitPrompt == BaseIdle /\ MoreIdle

NextPrompt ==
    \/ PromptDone
    \/ \E ok \in BOOLEAN : PromptSettles(ok)
    \/ \E isTitle \in BOOLEAN, template \in Templates, lang \in TargetLanguages :
        PromptCall(isTitle, template, lang)

SpecPrompt == InitPrompt /\ [][NextPrompt]_vars

\* ---- spoken text: processBookmark ------------------------------------------

\* worker.ts:105-116 and :125-128: getBookmarkText has returned; the article
\* is parsed.  With translation configured the item awaits translateTitle;
\* without, it awaits synthesize of parsed.fullText.
Parse(title, source, body, configured) ==
    /\ aphase = "idle"
    /\ article' = parseArticle(title, source, body)
    /\ aconf' = configured
    /\ translatedTitle' = title
    /\ textForTTS' = parseArticle(title, source, body).fullText
    /\ aphase' = IF configured THEN "title" ELSE "synth"
    /\ synthText' = IF configured THEN <<>>
                    ELSE parseArticle(title, source, body).fullText
    /\ episode' = <<>>
    /\ UNCHANGED notAnnounce

\* worker.ts:116-117: translateTitle settles, with the title it returns (the
\* title itself when the translation is skipped) or with a throw.
TitleTranslated(ok, t) ==
    /\ aphase = "title"
    /\ IF ok
       THEN aphase' = "body" /\ translatedTitle' = t
       ELSE aphase' = "failed" /\ UNCHANGED translatedTitle
    /\ UNCHANGED <<notAnnounce, article, aconf, textForTTS, synthText, episode>>

\* worker.ts:117-128: translateText settles; the intro is built again, and
\* synthesize is called with the new text.
BodyTranslated(ok, b) ==
    /\ aphase = "body"
    /\ IF ok
       THEN /\ aphase' = "synth"
            /\ textForTTS' = intro(article, translatedTitle) \o <<"\n\n">> \o b
            /\ synthText' = intro(article, translatedTitle) \o <<"\n\n">> \o b
       ELSE aphase' = "failed" /\ UNCHANGED <<textForTTS, synthText>>
    /\ UNCHANGED <<notAnnounce, article, aconf, translatedTitle, episode>>

\* worker.ts:128-139: synthesize settles; the Episode is committed.
Synthesized(ok) ==
    /\ aphase = "synth"
    /\ IF ok
       THEN aphase' = "done" /\ episode' = translatedTitle
       ELSE aphase' = "failed" /\ UNCHANGED episode
    /\ UNCHANGED <<notAnnounce, article, aconf, translatedTitle, textForTTS,
                   synthText>>

\* worker.ts:141-144: processBookmark returns.
AnnounceEnds ==
    /\ aphase \in {"done", "failed"}
    /\ article' = NoArticle
    /\ aconf' = FALSE
    /\ aphase' = "idle"
    /\ translatedTitle' = <<>>
    /\ textForTTS' = <<>>
    /\ synthText' = <<>>
    /\ episode' = <<>>
    /\ UNCHANGED notAnnounce

InitAnnounce == BaseIdle /\ MoreIdle

NextAnnounce ==
    \/ AnnounceEnds
    \/ \E ok \in BOOLEAN : Synthesized(ok)
    \/ \E ok \in BOOLEAN, t \in ArticleTitles : TitleTranslated(ok, t)
    \/ \E ok \in BOOLEAN, b \in ArticleBodies : BodyTranslated(ok, b)
    \/ \E t \in ArticleTitles, s \in RawSources, b \in ArticleBodies,
          c \in BOOLEAN : Parse(t, s, b, c)

SpecAnnounce == InitAnnounce /\ [][NextAnnounce]_vars

\* ---- settled check: the removal loop ----------------------------------------

\* worker.ts:75-82: the continuation of `await Promise.race(running)` runs:
\* it enters the loop at i = running.length - 1 and evaluates the check of
\* running[i] up to its await.
WakeUp(p) ==
    /\ ri = 0 /\ microtasks = <<>>
    /\ pool' = p
    /\ ri' = Len(p)
    /\ thenP' = "pending"
    /\ catchP' = "pending"
    /\ raceP' = "pending"
    /\ microtasks' = CheckJobs(p[Len(p)], Len(p))
    /\ was' = p[Len(p)]
    /\ lastCheck' = NoCheck
    /\ UNCHANGED notRace

\* A continuation of a pending processBookmark runs to its end: its promise
\* is fulfilled.  Of running[i], with the reaction of then() registered: the
\* reaction is queued.
TaskFulfils(j) ==
    /\ ri > 0
    /\ j \in 1..Len(pool) /\ pool[j] = "pending"
    /\ pool' = [pool EXCEPT ![j] = "fulfilled"]
    /\ microtasks' = IF j = ri /\ thenP = "pending"
                     THEN Append(microtasks, <<"then", ri>>) ELSE microtasks
    /\ UNCHANGED <<notRace, ri, thenP, catchP, raceP, was, lastCheck>>

\* The head of the queue is a job `kind`; Mine: of the check in progress
\* (the promises of a check that has ended are not kept: a job of theirs
\* changes none of the variables but the queue).
HeadIs(kind) == microtasks # <<>> /\ Head(microtasks)[1] = kind

Mine == ri > 0 /\ Head(microtasks)[2] = ri

\* The reaction () => true of then(): the then-promise is fulfilled with
\* true, and the reaction catch() registered on it is queued.
RunThen ==
    /\ HeadIs("then")
    /\ thenP' = IF Mine THEN "true" ELSE thenP
    /\ microtasks' =
        Append(Tail(microtasks), <<"catch", Head(microtasks)[2]>>)
    /\ UNCHANGED <<notRace, pool, ri, catchP, raceP, was, lastCheck>>

\* The reaction of catch() passes the value on: the catch-promise is
\* fulfilled with true, and the reaction race() registered on it is queued.
RunCatch ==
    /\ HeadIs("catch")
    /\ catchP' = IF Mine THEN "true" ELSE catchP
    /\ microtasks' =
        Append(Tail(microtasks), <<"settled", Head(microtasks)[2]>>)
    /\ UNCHANGED <<notRace, pool, ri, thenP, raceP, was, lastCheck>>

\* A reaction race() registered on an element: "resolved" that of
\* Promise.resolve(false), "settled" that of the catch-promise.  It resolves
\* its race when that is pending, and then the continuation of the await is
\* queued.
RunRace ==
    /\ HeadIs("resolved") \/ HeadIs("settled")
    /\ IF Mine /\ raceP = "pending"
       THEN /\ raceP' = IF HeadIs("settled") THEN "true" ELSE "false"
            /\ microtasks' = Append(Tail(microtasks), <<"await", ri>>)
       ELSE /\ microtasks' = Tail(microtasks)
            /\ UNCHANGED raceP
    /\ UNCHANGED <<notRace, pool, ri, thenP, catchP, was, lastCheck>>

\* worker.ts:79-86: the continuation of the await of the check: settled is
\* the value of the race; running[i] is spliced out when it is true; the loop
\* goes on with the check of running[i - 1] up to its await, or ends.
Resume ==
    /\ HeadIs("await")
    /\ lastCheck' = [was |-> was, settled |-> raceP]
    /\ pool' = IF raceP = "true" THEN Splice(pool, ri) ELSE pool
    /\ ri' = ri - 1
    /\ IF ri > 1
       THEN /\ thenP' = "pending"
            /\ catchP' = "pending"
            /\ raceP' = "pending"
            /\ was' = pool[ri - 1]
            /\ microtasks' = Tail(microtasks) \o CheckJobs(pool[ri - 1], ri - 1)
       ELSE /\ thenP' = "none"
            /\ catchP' = "none"
            /\ raceP' = "none"
            /\ was' = "none"
            /\ microtasks' = Tail(microtasks)
    /\ UNCHANGED notRace

InitRace == BaseIdle /\ MoreIdle

NextRace ==
    \/ RunThen
    \/ RunCatch
    \/ RunRace
    \/ Resume
    \/ \E j \in 1..MAX_CONCURRENCY : TaskFulfils(j)
    \/ \E p \in Pools : WakeUp(p)

SpecRace == InitRace /\ [][NextRace]_vars

\* ---- the split of the tts-worker: the call ----------------------------------

\* feed.ts:88-92: the worker has read its input and splits the text.
SplitForTTS ==
    /\ textChunks = <<>> /\ cphase = "idle"
    /\ \E t \in TtsTexts :
        /\ ttsText' = t
        /\ textChunks' = splitTextForTTS(t, TTS_MAX_CHARS_PER_CHUNK)
    /\ UNCHANGED notTts

\* The worker has exited.
TtsDone ==
    /\ textChunks # <<>>
    /\ ttsText' = <<>>
    /\ textChunks' = <<>>
    /\ UNCHANGED notTts

NextSplit ==
    \/ NextChunks
    \/ TtsDone
    \/ SplitForTTS

SpecSplit == InitChunks /\ [][NextSplit]_vars

\* ---- the state file under two instances: the admin route --------------------

\* part_003:101-126, DELETE /api/episodes/:id on the instance of the server:
\* getProcessedBookmarks() re-loads, an id that is not there is answered 404,
\* else the record is removed and the state saved.  The request falls outside
\* the save() of the pipeline, which shares tmpPath with it.
DeleteEpisode(id) ==
    /\ sm[Reader].live
    /\ spos = "idle"
    /\ HasMap(load(file))
    /\ IF id \in Keys(load(file).val)
       THEN /\ sm' = [sm EXCEPT ![Reader].state =
                        Json(removeProcessedMem(load(file).val, id))]
            /\ file' = Json(removeProcessedMem(load(file).val, id))
            /\ ret' = Returned("removeProcessed", Reader, id)
       ELSE /\ sm' = [sm EXCEPT ![Reader].state = load(file)]
            /\ file' = file
            /\ ret' = Threw("removeProcessed", Reader, id)
    /\ UNCHANGED <<notStore, tmpFile, spos, pending, uncommitted>>

NextShared ==
    \/ NextStore
    \/ \E id \in StoreIds : DeleteEpisode(id)

SpecShared == InitStore /\ [][NextShared]_vars

\* ---- the admin server: requests ------------------------------------------------

\* The response of the guard to a request it does not let through.
Guarded(g) ==
    ares' = IF g = "setup_page" THEN Answer("guard", 200, "setup")
            ELSE IF g = "login_page" THEN Answer("guard", 200, "login")
            ELSE IF g = "403" THEN Answer("guard", 403, "")
            ELSE Answer("guard", 401, "")

\* part_003:31 and part_001:146-177: POST /api/admin/login from `ip` with
\* req.body.password = pw.
PostLogin(ip, pw, token) ==
    LET g == authGuard(adminConfig, "POST", "/api/admin/login", token, clock)
        limited == isLoginRateLimited(loginAttempts, ip, clock)
        counted == limiterAfter(loginAttempts, ip, clock)
        fresh == counted[ip].count = 1
        wrong == \/ pw.chars = <<>>
                 \/ pw.type # "string"
                 \/ pw.chars # adminConfig.password
    IN /\ areq' = [method |-> "POST", url |-> "/api/admin/login", ip |-> ip,
                   password |-> pw, token |-> token]
       /\ IF g # "next"
          THEN /\ Guarded(g)
               /\ UNCHANGED <<loginAttempts, compared>>
          ELSE IF limited
          THEN /\ ares' = Answer("handleLogin", 429, "")
               /\ loginAttempts' = counted
               /\ UNCHANGED compared
          ELSE IF wrong
          THEN /\ ares' = Answer("handleLogin", 401, "")
               /\ loginAttempts' = counted
               /\ compared' = [compared EXCEPT ![ip] = IF fresh THEN 1 ELSE @ + 1]
          ELSE /\ ares' = [Answer("handleLogin", 200, "") EXCEPT
                              !.cookie = createSessionToken(getSecret(adminConfig), clock)]
               /\ loginAttempts' = clearLoginRateLimit(counted, ip)
               /\ compared' = [compared EXCEPT ![ip] = 0]
       /\ UNCHANGED <<notAdmin, adminConfig, clock>>

\* Time passes.
Tick ==
    /\ clock < MaxTicks * CLEANUP_INTERVAL_MS
    /\ clock' = clock + CLEANUP_INTERVAL_MS
    /\ UNCHANGED <<notAdmin, adminConfig, loginAttempts, compared, areq, ares>>

\* part_001:262-269, the timer: the entries whose window is over are deleted.
CleanStale ==
    /\ \E ip \in ClientIps :
          /\ loginAttempts[ip] # NoEntry
          /\ clock - loginAttempts[ip].firstAttempt > LOGIN_WINDOW_MS
    /\ loginAttempts' =
          [ip \in ClientIps |->
              IF clock - loginAttempts[ip].firstAttempt > LOGIN_WINDOW_MS
              THEN NoEntry ELSE loginAttempts[ip]]
    /\ UNCHANGED <<notAdmin, adminConfig, clock, compared, areq, ares>>

\* The server has started: config.admin is what the config file carries,
\* nothing, a password alone, or what an earlier setup has saved.
InitAdmin ==
    /\ BaseIdle
    /\ ChunksIdle /\ SynthIdle /\ NamesIdle /\ DiscoveryIdle /\ ConfigIdle
    /\ PromptIdle /\ AnnounceIdle /\ RaceIdle /\ TtsIdle
    /\ ConfigApiIdle /\ CaptureIdle /\ AudioIdle
    /\ adminConfig \in StoredAdminConfigs
    /\ clock = 0
    /\ loginAttempts = [ip \in ClientIps |-> NoEntry]
    /\ compared = [ip \in ClientIps |-> 0]
    /\ areq = NoRequest
    /\ ares = NoResponse

\* The passwords of the logins: the right one, a wrong one, none.
LoginPasswords == {Text(<<"a", "b", "c", "d">>), Text(<<"h", "u", "n", "t", "e", "r">>), Text(<<>>)}

NextLogin ==
    \/ Tick
    \/ CleanStale
    \/ \E ip \in ClientIps, pw \in LoginPasswords : PostLogin(ip, pw, NoToken)

SpecLogin == InitAdmin /\ [][NextLogin]_vars

\* ---- the admin server: setup and the guarded routes ---------------------------

\* part_003:32 and part_001:179-222: POST /api/admin/setup with
\* req.body.password = pw; sessionSecret is what randomBytes gave; saveConfigFn
\* writes the config file, or throws and the request ends in a 500.
handleSetupAlways(config, pw) == "set"

handleSetup(config, pw) ==
    IF config.password # <<>> THEN "already_set"
    ELSE IF pw.chars = <<>> \/ pw.type # "string" \/ Len(pw.chars) < 4 THEN "too_short"
    ELSE "set"

PostSetup(pw, sessionSecret, token, saveOk) ==
    LET h == handleSetup(adminConfig, pw)
    IN /\ authGuard(adminConfig, "POST", "/api/admin/setup", token, clock) = "next"
       /\ areq' = [method |-> "POST", url |-> "/api/admin/setup", ip |-> "10.0.0.1",
                   password |-> pw, token |-> token]
       /\ IF h # "set"
          THEN /\ ares' = Answer("handleSetup", 400, "")
               /\ UNCHANGED adminConfig
          ELSE IF ~saveOk
          THEN /\ ares' = Answer("handleSetup", 500, "")
               /\ UNCHANGED adminConfig
          ELSE /\ adminConfig' = [password |-> pw.chars, session_secret |-> sessionSecret]
               /\ ares' = [Answer("handleSetup", 200, "") EXCEPT
                              !.cookie = createSessionToken(sessionSecret, clock)]
       /\ UNCHANGED <<notAdmin, clock, loginAttempts, compared>>

\* The path of an originalUrl, as the router matches it: without the query
\* and without a trailing slash.
Path(url) == IF url \in {"/admin/", "/admin?setup=1"} THEN "/admin" ELSE url

\* part_003:33-36 and the routes after them: the handler of a request that
\* is neither the login nor the setup.
route(method, url) ==
    IF method = "GET" /\ Path(url) = "/admin" THEN "adminPage"
    ELSE IF method = "POST" /\ url = "/api/admin/logout" THEN "handleLogout"
    ELSE IF method = "GET" /\ url = "/api/episodes" THEN "api"
    ELSE "notFound"

\* part_003:27-36: a request to /admin or /api other than the two above, from
\* an address the filter lets in.
Request(method, url, token) ==
    LET g == authGuard(adminConfig, method, url, token, clock)
        h == route(method, url)
    IN /\ ~(method = "POST" /\ url \in {"/api/admin/setup", "/api/admin/login"})
       /\ areq' = [method |-> method, url |-> url, ip |-> "10.0.0.1",
                   password |-> Text(<<>>), token |-> token]
       /\ IF g # "next" THEN Guarded(g)
          ELSE ares' = Answer(h, IF h = "notFound" THEN 404 ELSE 200,
                              IF h = "adminPage" THEN "admin" ELSE "")
       /\ UNCHANGED <<notAdmin, adminConfig, clock, loginAttempts, compared>>

\* SESSION_MAX_AGE passes.
WeekLater ==
    /\ clock < SESSION_MAX_AGE
    /\ clock' = clock + SESSION_MAX_AGE
    /\ UNCHANGED <<notAdmin, adminConfig, loginAttempts, compared, areq, ares>>

\* The logins are those with the password of the config.
NextGuard ==
    \/ WeekLater
    \/ PostLogin("10.0.0.1", Text(adminConfig.password), NoToken)
    \/ \E pw \in BodyPasswords, s \in SessionSecrets, saveOk \in BOOLEAN :
          PostSetup(pw, s, NoToken, saveOk)
    \/ \E token \in SessionTokens, method \in Methods, url \in Urls :
          Request(method, url, token)

SpecGuard == InitAdmin /\ [][NextGuard]_vars

\* ---- the config routes: requests ------------------------------------------------

\* part_003:41-53, GET /api/config with a session.
GetConfig ==
    LET r == maskedConfig(appConfig)
    IN /\ cres' = IF r.thrown
                  THEN [NoConfigResponse EXCEPT !.route = "GET", !.status = 500]
                  ELSE [route |-> "GET", status |-> 200, body |-> r.value]
       /\ UNCHANGED <<notConfigApi, appConfig>>

\* part_003:55-93, PUT /api/config with the body `updates`; saveConfig writes
\* the file or throws.
PutConfig(updates, saveOk) ==
    LET r == mergedConfig(appConfig, updates)
    IN /\ cres' = [NoConfigResponse EXCEPT
                      !.route = "PUT",
                      !.status = IF r.thrown \/ ~saveOk THEN 500 ELSE 200]
       /\ appConfig' = IF r.thrown \/ ~saveOk THEN appConfig ELSE r.value
       /\ UNCHANGED notConfigApi

\* The client sends back what the GET gave it.
PutBack(saveOk) ==
    /\ cres.route = "GET" /\ cres.status = 200
    /\ PutConfig(cres.body, saveOk)

InitConfigApi ==
    /\ BaseIdle
    /\ ChunksIdle /\ SynthIdle /\ NamesIdle /\ DiscoveryIdle /\ ConfigIdle
    /\ PromptIdle /\ AnnounceIdle /\ RaceIdle /\ TtsIdle /\ AdminIdle
    /\ CaptureIdle /\ AudioIdle
    /\ appConfig \in LoadedConfigs
    /\ cres = NoConfigResponse

NextConfigApi ==
    \/ GetConfig
    \/ \E saveOk \in BOOLEAN :
        \/ PutBack(saveOk)
        \/ \E updates \in Bodies : PutConfig(updates, saveOk)

SpecConfigApi == InitConfigApi /\ [][NextConfigApi]_vars

\* ---- the capture of the logs: the stream ----------------------------------------

\* scheduler.ts:47-51 and :89-94: the child is spawned and its stdout
\* attached; `bytes` is what the child will have written when it exits.
Attach ==
    /\ streamState = "none"
    /\ streamState' = "open"
    /\ \E bytes \in ChildOutputs : childOutput' = bytes
    /\ UNCHANGED <<notCapture, delivered, buffer, entries>>

\* scheduler.ts:62-79: a "data" event with the next n bytes.  The echo to
\* process.stdout (:67) is no state of the server.
StreamData(n) ==
    LET r == onData(buffer, entries, SubSeq(childOutput, delivered + 1, delivered + n))
    IN /\ streamState = "open"
       /\ delivered + n <= Len(childOutput)
       /\ delivered' = delivered + n
       /\ buffer' = r.buffer
       /\ entries' = r.entries
       /\ UNCHANGED <<notCapture, childOutput, streamState>>

\* scheduler.ts:81-86: "end", after the last byte.
StreamEnds ==
    /\ streamState = "open"
    /\ delivered = Len(childOutput)
    /\ streamState' = "ended"
    /\ entries' = onEnd(buffer, entries)
    /\ UNCHANGED <<notCapture, childOutput, delivered, buffer>>

InitCapture ==
    /\ BaseIdle
    /\ ChunksIdle /\ SynthIdle /\ NamesIdle /\ DiscoveryIdle /\ ConfigIdle
    /\ LateIdle

NextCapture ==
    \/ Attach
    \/ StreamEnds
    \/ \E n \in 1..MaxOutput : StreamData(n)

SpecCapture == InitCapture /\ [][NextCapture]_vars

\* ---- the audio route: requests --------------------------------------------------

\* server.ts:55-74, GET /audio/:filename; the file is there or not.  One
\* request is followed, made when an episode is committed.
GetAudio(filename, exists) ==
    /\ fname1 # NoName
    /\ audioReq = <<>>
    /\ audioReq' = filename
    /\ audioRes' = audioRoute(filename, exists)
    /\ UNCHANGED notAudio

\* worker.ts:127-139: the episode of an item is committed under the name
\* generateFilename returned.
CommitEpisode(bookmarkId, title) ==
    /\ fname1 = NoName
    /\ GenerateFilename(bookmarkId, title)

EpisodeNames == {fname1.name} \ {<<>>}

\* The request is answered; the episode and the request are forgotten.
AudioDone ==
    /\ audioReq # <<>>
    /\ audioReq' = <<>>
    /\ audioRes' = 0
    /\ fname1' = NoName
    /\ UNCHANGED <<fname2, baseVars, chunkVars, synthVars, discVars, confVars, promptVars,
                   announceVars, raceVars, ttsVars, adminVars, configApiVars,
                   captureVars>>

NextAudio ==
    \/ AudioDone
    \/ \E bookmarkId \in FileIds, title \in Titles :
          CommitEpisode(bookmarkId, title)
    \/ \E filename \in EpisodeNames \cup OtherNames, exists \in BOOLEAN :
          GetAudio(filename, exists)

SpecAudio == InitNames /\ [][NextAudio]_vars

\* ---- claims --------------------------------------------------------------

Alive(r) == cpc[r] \in {"await", "check"}

Record(st, id) == st.processedBookmarks[id]

\* C1: at every instant at most one pipeline run is executing, whatever
\* started it: a cron tick, a manual trigger or the initial run of main().
C1_NoOverlap == Cardinality({r \in RunIds : Executing(r)}) <= 1

\* C2: once an id is a key of the persisted episodes, no run starts a fetch,
\* a translation or a synthesis for it, and its stored record never changes.
C2_Idempotent ==
    [][\A id \in Keys(disk) :
        /\ Record(disk', id) = Record(disk, id)
        /\ \A r \in RunIds :
            task'[r][id] \in Active => task'[r][id] = task[r][id]]_vars

\* A later run lists an id an earlier run committed, and has not touched it.
C2_Witness ==
    \E r \in RunIds, id \in Ids :
        /\ Alive(r)
        /\ id \in bookmarks[r]
        /\ id \in Keys(disk)
        /\ Record(disk, id).pubDate < r
        /\ task[r][id] = "none"

\* C3: the record of an id is written to the state only by a run in which
\* the synthesis of that id succeeded, which is reached only through the
\* fetch and, when translation is configured, the title and body translations;
\* an id whose pipeline failed in a step stays absent from episodes, and a run
\* that lists an absent id takes it as a new item.
C3_CommitOnlyAfterSuccess ==
    /\ [](\A r \in RunIds, id \in Ids :
            task[r][id] = "failed" => id \notin Keys(disk))
    /\ [](\A r \in RunIds, id \in Ids :
            Alive(r) /\ id \in bookmarks[r] /\ id \notin Keys(disk) =>
                task[r][id] # "none" \/ id \in {queue[r][i] : i \in 1..Len(queue[r])})
    /\ [][\A r \in RunIds, id \in Ids :
            /\ Record(disk', id) # Record(disk, id) =>
                   \E q \in RunIds : task'[q][id] \in {"done", "fail_save"}
            /\ task'[r][id] \in {"done", "fail_save"} /\ task'[r][id] # task[r][id]
                   => task[r][id] = "synth"
            /\ task'[r][id] = "synth" /\ task[r][id] # "synth"
                   => task[r][id] = (IF translate THEN "body" ELSE "fetch")]_vars

\* An id that failed in the run that ended last is being processed again and
\* is still absent from episodes.
C3_Witness ==
    \E r \in RunIds, id \in Ids :
        /\ id \in failedBefore
        /\ Alive(r) /\ task[r][id] \in Active /\ id \notin Keys(disk)

\* C4: after the pipeline of one item has failed, every other new item of the
\* run is still dispatched and runs to its own success or failure (unless the
\* run's process dies).
C4_SiblingsStillRun ==
    \A r \in RunIds, id \in Ids, j \in Ids :
        (Alive(r) /\ task[r][id] = "failed" /\ j # id
            /\ (task[r][j] \in Active \/ j \in {queue[r][i] : i \in 1..Len(queue[r])}))
        ~> (~Alive(r) \/ Settled(task[r][j]))

\* C5: at no instant are more than MAX_CONCURRENCY item pipelines of a run
\* started and not yet settled.
C5_BoundedConcurrency ==
    \A r \in RunIds :
        Cardinality({id \in Ids : task[r][id] \in Active}) <= MAX_CONCURRENCY

\* The limit is reached while another new item waits in the queue.
C5_Witness ==
    \E r \in RunIds :
        /\ Cardinality({id \in Ids : task[r][id] \in Active}) = MAX_CONCURRENCY
        /\ Len(queue[r]) > 0

\* C6: an item that waits in the queue is eventually dispatched (unless the
\* run's process dies): settled items release their slots.
C6_QueuedEventuallyDispatched ==
    \A r \in RunIds, id \in Ids :
        (Alive(r) /\ id \in {queue[r][i] : i \in 1..Len(queue[r])})
        ~> (~Alive(r) \/ task[r][id] # "none")

\* C7: once every dispatched item of a run has settled and none is queued,
\* runPipeline returns and isRunning goes back to false.
C7_RunTerminates ==
    \A r \in RunIds :
        (Alive(r) /\ queue[r] = <<>> /\ \A id \in Ids : task[r][id] \notin Active)
        ~> (cpc[r] \in {"closed_ok", "closed_failed"} /\ ~isRunning)

\* C8: runPipeline neither returns nor makes its final updateLastRun call
\* (the step to exit0, or to exit1 when that save throws) while an item it
\* dispatched is still in flight, and isRunning is never false while an item
\* pipeline of a run is executing.
C8_Draining ==
    /\ [](\A r \in RunIds, id \in Ids : InFlight(r, id) => isRunning)
    /\ [][\A r \in RunIds :
            Alive(r) /\ cpc'[r] \in {"exit0", "exit1"}
                => \A id \in Ids : task[r][id] \notin Active]_vars

\* The removal loop is about to evaluate the while condition with one item
\* settled and another still in flight.
C8_Witness ==
    \E r \in RunIds, id \in Ids, j \in Ids :
        /\ cpc[r] = "check" /\ idx[r] = 1
        /\ Settled(task[r][id])
        /\ InFlight(r, j)

\* C9: whenever no run is executing and no handler is waiting to see the end
\* of one, isRunning is false: however a run ends, the flag is reset, so the
\* next trigger starts a run.
C9_FlagReset ==
    isRunning => \E r \in RunIds : Executing(r) \/ Ended(r)

\* A run ended in failure, and a trigger after it has started the next run.
C9_Witness ==
    \E r \in RunIds :
        cpc[r] = "closed_failed" /\ r + 1 \in RunIds /\ Executing(r + 1)

\* C10: a trigger that finds a run in progress changes nothing but the log;
\* a run starts only in a trigger that finds no run in progress; isRunning
\* goes from true to false only when the run in flight has ended.
C10_SkippedTrigger ==
    [][/\ (log' = "skipping" /\ log # "skipping")
            => UNCHANGED <<isRunning, nextRun, src, cpc, mem, disk, task>>
       /\ nextRun' # nextRun
            => /\ log' = "starting"
               /\ \A r \in RunIds : ~Executing(r) /\ ~Ended(r)
       /\ (isRunning /\ ~isRunning')
            => /\ \E r \in RunIds : Ended(r) /\ cpc'[r] \in {"closed_ok", "closed_failed"}
               /\ \A r \in RunIds : ~Executing(r)]_vars

\* A trigger was skipped while the run it found is still executing.
C10_Witness ==
    /\ log = "skipping"
    /\ isRunning
    /\ \E r \in RunIds : Alive(r)

C12_IsProcessedReadsStorage ==
    [][\A i \in StoreInsts, id \in StoreIds :
        (IsProcessed(i, id) /\ ~ret'.thrown) => ret'.flag = Persisted(id)]_vars

\* C13: an id whose addProcessed threw (and that no commit has persisted) is
\* not processed for the instance and is in no persisted state.
C13_FailedCommitNotDone ==
    \A id \in uncommitted :
        /\ (sm[Writer].live /\ HasMap(sm[Writer].state))
               => ~isProcessed(sm[Writer].state.val, id)
        /\ ~Persisted(id)

\* C14: a StateManager made over a missing or corrupt state.json holds the
\* empty aggregate, and none of its reads throws.
C14_CorruptReadsEmpty ==
    /\ [](ret.op \in {"construct", "isProcessed", "getProcessedBookmarks",
                      "getLastRun"} => ~ret.thrown)
    /\ [][\A i \in StoreInsts :
            (Construct(i) /\ file.kind # "json")
                => sm'[i].state = Json(EMPTY_STATE)]_vars

\* C15: the step that ends a run attempt leaves the persisted lastRun at the
\* time of that step: for an attempt that fails in the listing and for a run
\* that returns (with commits, with failed items or with nothing new).
C15_LastRunEveryAttempt ==
    [][\A r \in RunIds :
        /\ ListFail(r) => disk'.lastRun = Now
        /\ (Executing(r) /\ cpc'[r] = "exit0") => disk'.lastRun = Now]_vars

\* C16: while a run is in its worker loop, the persisted lastRun keeps the
\* value it had, also in the steps that commit an episode.
C16_NoMidRunUpdate ==
    [][\A r \in RunIds :
        (Alive(r) /\ cpc'[r] \in {"await", "check"})
            => disk'.lastRun = disk.lastRun]_vars

\* C17: a run over new items in which an item has failed comes to its end
\* (unless its process dies); when a run returns, the listed ids that are
\* persisted are exactly those processed before and those whose pipeline
\* succeeded, and lastRun is set; a run that lists an id that failed in the
\* last run attempts it again.
C17_EndToEnd ==
    /\ \A r \in RunIds :
        (Alive(r) /\ \E id \in Ids : task[r][id] \in Failed) ~> ~Alive(r)
    /\ [][\A r \in RunIds :
            (Alive(r) /\ cpc'[r] = "exit0") =>
                /\ \A id \in bookmarks[r] :
                    id \in Keys(disk') <=> task[r][id] \in {"none", "done"}
                /\ disk'.lastRun = Now]_vars
    /\ [](\A r \in RunIds, id \in Ids :
            (Alive(r) /\ id \in failedBefore /\ id \in bookmarks[r]
                /\ id \notin Keys(disk))
            => (task[r][id] # "none"
                \/ id \in {queue[r][i] : i \in 1..Len(queue[r])}))

\* C18: the list getProcessedBookmarks returns is in descending order of
\* pubDate, and entries of equal pubDate are in ascending order of id.
C18_SortedNewestFirst ==
    \A i, j \in 1..Len(listed) :
        i < j => \/ listed[i].pubDate > listed[j].pubDate
                 \/ /\ listed[i].pubDate = listed[j].pubDate
                    /\ IdLess(listed[i].id, listed[j].id)

\* C19: with skip_if_same set and the detected language equal to the code
\* the table gives for the target language name, translateText and
\* translateTitle return the input and make no request; with a target language
\* name that is not in the table the input is never returned unchanged by the
\* skip, whatever language is detected: a call that ends has made a request.
C19_SkipIfSameLanguage ==
    tphase # "idle" =>
        /\ (/\ tcall.skip
            /\ toLowerCase(tcall.target) \in DOMAIN LANG_NAME_TO_CODE
            /\ tcall.detected = LANG_NAME_TO_CODE[toLowerCase(tcall.target)])
           => (tphase = "returned" /\ tresult.kind = "input" /\ total = 0)
        /\ toLowerCase(tcall.target) \notin DOMAIN LANG_NAME_TO_CODE
           => /\ tresult.kind # "input"
              /\ tphase \in {"returned", "threw"} => total >= 1

\* A call with the target "Svenska" and a text detected as "swe" has returned
\* its input.
C19_Witness ==
    /\ tphase = "returned" /\ tresult.kind = "input" /\ total = 0
    /\ tcall.target = "Svenska" /\ tcall.detected = "swe"

\* C20: a callChatCompletions that returns a response has made as many
\* requests as attempts up to the successful one, at most 3, returns the
\* response of the last request, and has slept 1000 ms before the second
\* request and 2000 ms before the third; after the return no request follows.
C20_RetryWithBackoff ==
    /\ [](tphase = "returned" /\ tresult.kind = "translated" =>
            /\ requests \in 1..3
            /\ tresult.last = requests
            /\ delays = SubSeq(<<1000, 2000>>, 1, requests - 1))
    /\ [][tphase = "returned" => tphase' = "idle"]_vars

\* The first two attempts failed and the third returned.
C20_Witness ==
    /\ tphase = "returned" /\ tresult.kind = "translated"
    /\ requests = 3 /\ delays = <<1000, 2000>>

\* C21: a callChatCompletions whose 3 attempts failed throws after 3 requests
\* an error that carries the failure of the third; after the throw no request
\* is made for the chunks that are left, the item goes to its failure and is
\* never committed, also when the title or earlier chunks were translated.
C21_RetryExhaustion ==
    /\ [](tphase = "threw" =>
            /\ tresult.kind = "error"
            /\ requests = 3 /\ Len(failures) = 3
            /\ tresult.cause = failures[3])
    /\ [](requests <= 3)
    /\ [][tphase = "threw" =>
            /\ tphase' = "idle" /\ total' = 0
            /\ item'.stage = "failed"]_vars
    /\ [][item.stage = "failed" => item'.stage \in {"failed", "none"}]_vars
    /\ [][item'.stage = "committed" /\ item.stage # "committed"
            => item.stage = "synth" /\ tphase = "idle"]_vars

\* The second chunk of a body failed three times, the last time by the
\* timeout after two other failures; the title and the first chunk had been
\* translated.
C21_Witness ==
    /\ tphase = "threw" /\ tcall.fn = "text"
    /\ tcall.chunks = 2 /\ chunk = 2
    /\ item.title = "translated"
    /\ failures = <<"status", "network", "timeout">>
    /\ tresult.cause = "timeout"

\* C22: a body of more than 12000 characters is split into chunks none of
\* which is longer than 12000 characters; a body of at most 12000 characters
\* is one chunk; the chunks are requested one by one in their order, and what
\* translateText returns is their translations in that order with the
\* separator between them.
C22_LongTextChunks ==
    cphase # "idle" =>
        /\ \A i \in 1..Len(chunkList) : Length(chunkList[i]) <= MAX_CHARS_PER_CHUNK
        /\ Length(text) <= MAX_CHARS_PER_CHUNK => chunkList = <<text>>
        /\ sent = SubSeq(chunkList, 1, Len(sent))
        /\ translated = [i \in 1..Len(translated) |-> Translation(chunkList[i])]
        /\ cphase = "returned" =>
            /\ Len(sent) = Len(chunkList)
            /\ Len(joined) = 2 * Len(chunkList) - 1
            /\ \A i \in 1..Len(joined) :
                joined[i] = IF i % 2 = 1 THEN Translation(chunkList[(i + 1) \div 2])
                            ELSE Separator

\* C23: a call of synthesize comes to its end, resolved or rejected, whatever
\* the speech engine does, also when it never answers.
C23_SynthesisBounded ==
    sphase = "spawned" ~> sphase \in {"resolved", "rejected"}

\* C24: when a call of synthesize has ended, resolved or rejected, and its
\* worker was not killed, no .partN.mp3 file is left but those whose unlink
\* threw.
C24_PartFilesRemoved ==
    (sphase \in {"resolved", "rejected"} /\ exitCode \in {0, 1})
        => partFiles \subseteq unlinkFailed

\* C25: the duration synthesize resolves with is the natural number nearest
\* to size / 16000 (halves go up), it is 12 for a file of 192000 bytes, and a
\* call over a file at least as large as that of an earlier call resolves
\* with at least the duration of that call.
C25_DurationFromSize ==
    sphase = "resolved" =>
        /\ sresult.size = outSize
        /\ sresult.duration \in Nat
        /\ 16000 * sresult.duration - 8000 <= sresult.size
        /\ sresult.size < 16000 * sresult.duration + 8000
        /\ sresult.size = 192000 => sresult.duration = 12
        /\ (prevResult.kind = "duration" /\ prevResult.size <= sresult.size)
               => prevResult.duration <= sresult.duration

\* A call over two chunk files of 7999 bytes and 1 byte has resolved with 1,
\* after a call that resolved with 12 for 192000 bytes.
C25_Witness ==
    /\ sphase = "resolved"
    /\ partSizes = <<7999, 1>> /\ sresult.duration = 1
    /\ prevResult.size = 192000 /\ prevResult.duration = 12

\* The number of characters of a string of runs.
RECURSIVE Chars(_)
Chars(t) == IF t = <<>> THEN 0 ELSE Head(t)[2] + Chars(Tail(t))

\* C26: the names generateFilename returns for two different ids differ,
\* whatever the titles.
C26_NamesNeverCollide ==
    (fname2 # NoName /\ fname1.id # fname2.id) => fname1.name # fname2.name

\* The ids 1 and 11 with titles that gave the same slug, cut at 60
\* characters.
C26_Witness ==
    /\ fname1.id = <<<<"1", 1>>>> /\ fname2.id = <<<<"1", 2>>>>
    /\ fname1.safe = fname2.safe
    /\ Chars(fname1.safe) = SlugChars

\* C27: the response of POST /api/trigger is "started", sent in the step
\* that handles the request, whether the trigger starts a run or is skipped;
\* no later step changes it: not the run's success, not its failure.
C27_TriggerAnswersStarted ==
    /\ [](resp \in {"none", "started"})
    /\ [][ManualTrigger => resp' = "started"]_vars
    /\ [][resp # "none" => resp' = resp]_vars

\* A run that a manual trigger started has failed, a manual trigger after it
\* was skipped, and the response is "started".
C27_Witness ==
    /\ resp = "started"
    /\ log = "skipping"
    /\ \E r \in RunIds : src[r] = "manual" /\ cpc[r] \in {"exit1", "killed"}

\* The number of positions of a list that hold id.
Count(list, id) == Cardinality({i \in 1..Len(list) : list[i] = id})

\* C28: when the listings of a run are done, its candidates are the ids that
\* a listing returned, each once; without tags they are the list
\* getBookmarks() returned; the items dispatched are candidates that were not
\* processed when the run started, and no id is dispatched twice.
C28_TagUnionDeduplicated ==
    dphase \in {"await", "returned"} =>
        /\ {dbookmarks[i] : i \in 1..Len(dbookmarks)} = matched
        /\ \A id \in Ids : Count(dbookmarks, id) <= 1
        /\ tagCount = 0 => dbookmarks = taggedBookmarks
        /\ \A id \in Ids :
            /\ Count(drunning, id) + Count(dqueue, id) <= 1
            /\ Count(drunning, id) + Count(dqueue, id) = 1
                   <=> (id \in matched /\ id \notin startProcessed)

\* Two tags have listed the same new id, and it was dispatched once.
C28_Witness ==
    /\ dphase = "await" /\ tagCount = 2
    /\ \E id \in relisted : Count(drunning, id) = 1

\* C29: after a listing of a run has failed, the run is over: no further
\* listing is made, no item is dispatched, and the persisted episodes are
\* those of the start of the run.
C29_ListFailureStopsRun ==
    /\ [](listFailed =>
            /\ dphase = "rejected"
            /\ drunning = <<>> /\ dqueue = <<>>
            /\ processedIds = startProcessed)
    /\ [][dphase = "rejected" =>
            dphase' = "idle" /\ processedIds' = processedIds]_vars

\* The listing of the second tag failed after the first tag had listed an id
\* that is not processed.
C29_Witness ==
    /\ listFailed /\ tagCount = 2 /\ tagIdx = 1
    /\ \E id \in matched : id \notin processedIds

\* The value of a required field after the overrides: that of its
\* environment variable when set, else that of the file.
Effective(f) ==
    IF cfgEnv[f] # "unset" THEN cfgEnv[f]
    ELSE IF cfgFile.kind = "mapping" THEN cfgFile.vals[f]
    ELSE "undefined"

\* C30: when a process has started over a configuration file that is absent
\* or readable and a required field is undefined, null or empty after the
\* overrides, loadConfig has thrown the error that lists the missing fields,
\* and the process has exited with nothing started.
C30_MissingConfigFatal ==
    (/\ mphase # "off"
     /\ cfgFile.kind # "unreadable"
     /\ \E f \in REQUIRED_FIELDS : Effective(f) \in {"undefined", "null", ""})
    => /\ loaded.kind = "missing_fields"
       /\ loaded.missing =
            {f \in REQUIRED_FIELDS : Effective(f) \in {"undefined", "null", ""}}
       /\ mphase = "exited"
       /\ started = {}

\* C31: every request of a call carries as system prompt the configured
\* template of the call, or the default template when the configured one is
\* not set, empty or white space, with every placeholder replaced by the
\* target language; and a call whose first request succeeded made one request.
C31_ConfiguredPrompt ==
    /\ \A i \in 1..Len(psent) : psent[i] = systemPromptResolved(pcfg)
    /\ (pphase = "returned" /\ pattempt = 0) => Len(psent) = 1

\* C32: with translation configured, the text synthesize is called with is
\* the extractor's announcement for the translated title and the source name,
\* a blank line, and a body the translator returned; it does not begin with
\* the announcement of the original title when the translated title differs;
\* and the Episode committed carries the translated title.
C32_AnnouncementRebuilt ==
    /\ (aconf /\ aphase \in {"synth", "done"}) =>
        /\ \E b \in ArticleBodies :
            synthText = introText(article.source, translatedTitle)
                            \o <<"\n\n">> \o b
        /\ translatedTitle # article.title =>
            SubSeq(synthText, 1, Len(article.introText)) # article.introText
    /\ aphase = "done" => episode = translatedTitle

\* An item with a source whose title was translated to another title has
\* been synthesized and committed.
C32_Witness ==
    /\ aconf /\ aphase = "done"
    /\ article.source = <<"example.com">>
    /\ translatedTitle # article.title
    /\ episode = translatedTitle

\* C33: a check of the removal loop yields true when the promise it
\* checked was settled as the check began and false when it was pending; and
\* when a pass has ended, no promise that was settled as the pass began is
\* left in running.
C33_SettledCheck ==
    /\ lastCheck # NoCheck =>
        (lastCheck.settled = "true" <=> lastCheck.was = "fulfilled")
    /\ (ri = 0 /\ lastCheck # NoCheck) =>
        \A j \in 1..Len(pool) : pool[j] # "fulfilled"

\* The pieces of a text that are no whitespace, in their order.
NonSpace(t) == SelectSeq(t, LAMBDA c : c \notin Whitespace)

\* The chunks of a list, one after the other.
RECURSIVE Flatten(_)
Flatten(list) == IF list = <<>> THEN <<>> ELSE Head(list) \o Flatten(Tail(list))

\* C34: the chunks of a body above the threshold of the translator, and the
\* chunks of a text above the threshold of the tts-worker, hold in their
\* order all of the text that is no whitespace.
C34_ChunkingKeepsText ==
    /\ (cphase # "idle" /\ Length(text) > MAX_CHARS_PER_CHUNK) =>
        NonSpace(Flatten(chunkList)) = NonSpace(text)
    /\ (textChunks # <<>> /\ Length(ttsText) > TTS_MAX_CHARS_PER_CHUNK) =>
        NonSpace(Flatten(textChunks)) = NonSpace(ttsText)

\* C35: a commit or lastRun update made through one StateManager never
\* discards what another instance persisted after the first one last loaded:
\* the save of the pipeline puts into the state file no episode but the one
\* it commits (and those whose own earlier save failed); an episode deleted
\* through the instance of the server is not brought back.
C35_NoLostUpdate ==
    [][(/\ spos = "written"
        /\ spos' = "idle"
        /\ file' # file
        /\ HasMap(file)
        /\ HasMap(file'))
       => Keys(file'.val) \ ({pending} \cup uncommitted) \subseteq Keys(file.val)]_vars

\* C36: per client ip, at most LOGIN_MAX_ATTEMPTS logins of one window reach
\* the comparison of the password; a login that finds the counter of a
\* inWindow window at the maximum is answered 429 whatever its password; a
\* successful login clears the counter; the first login after the window is
\* admitted and starts a new window.
C36_LoginRateLimit ==
    /\ [](\A ip \in ClientIps : compared[ip] <= LOGIN_MAX_ATTEMPTS)
    /\ [][\A ip \in ClientIps, pw \in LoginPasswords :
            PostLogin(ip, pw, NoToken) =>
              LET counter == loginAttempts[ip]
                  inWindow == counter # NoEntry /\ clock - counter.firstAttempt <= LOGIN_WINDOW_MS
              IN /\ (inWindow /\ counter.count >= LOGIN_MAX_ATTEMPTS) => ares'.status = 429
                 /\ ares'.status = 200 => loginAttempts'[ip] = NoEntry
                 /\ ~inWindow =>
                      /\ ares'.status # 429
                      /\ ares'.status = 401 =>
                           loginAttempts'[ip] = [count |-> 1, firstAttempt |-> clock]]_vars

\* The sixth login of a window came with the right password and got 429.
C36_Witness ==
    /\ ares.status = 429
    /\ areq.password.chars = adminConfig.password
    /\ \E ip \in ClientIps :
          /\ areq.ip = ip
          /\ compared[ip] = LOGIN_MAX_ATTEMPTS
          /\ loginAttempts[ip].count = LOGIN_MAX_ATTEMPTS + 1

\* A request has been answered: what it was, and what the config was.
C37_Setup(method, url) == method = "POST" /\ url = "/api/admin/setup"

C37_Login(method, url) == method = "POST" /\ url = "/api/admin/login"

\* C37 as stated: without a password the guard lets POST /api/admin/setup
\* through, answers GET /admin with the setup page and every other request
\* with 403; with a password a request other than the login and the setup
\* gets past the guard only with a valid session token that has not expired,
\* and the setup leaves the password as it is.
C37_AccessControl ==
    [][<<areq, ares>>' # <<areq, ares>> =>
        LET method == areq'.method
            url == areq'.url
        IN IF adminConfig.password = <<>>
           THEN IF C37_Setup(method, url) THEN ares'.by # "guard"
                ELSE IF method = "GET" /\ url = "/admin"
                     THEN ares' = Answer("guard", 200, "setup")
                ELSE ares' = Answer("guard", 403, "")
           ELSE /\ (/\ ~C37_Setup(method, url)
                    /\ ~C37_Login(method, url)
                    /\ ares'.by # "guard")
                   => /\ areq'.token.present
                      /\ verifySessionToken(areq'.token, getSecret(adminConfig), clock)
                /\ adminConfig'.password = adminConfig.password]_vars

\* C37 amended: without a password a request whose originalUrl is /admin is
\* answered with the setup page whatever its method.
C37_AccessControlAmended ==
    [][<<areq, ares>>' # <<areq, ares>> =>
        LET method == areq'.method
            url == areq'.url
        IN IF adminConfig.password = <<>>
           THEN IF C37_Setup(method, url) THEN ares'.by # "guard"
                ELSE IF url = "/admin"
                     THEN ares' = Answer("guard", 200, "setup")
                ELSE ares' = Answer("guard", 403, "")
           ELSE /\ (/\ ~C37_Setup(method, url)
                    /\ ~C37_Login(method, url)
                    /\ ares'.by # "guard")
                   => /\ areq'.token.present
                      /\ verifySessionToken(areq'.token, getSecret(adminConfig), clock)
                /\ adminConfig'.password = adminConfig.password]_vars

\* With the password and the secret of a setup, a week later, a request for
\* the episodes came with a token that was still good and got to its handler.
C37_Witness ==
    /\ adminConfig.password # <<>>
    /\ adminConfig.session_secret \in SessionSecrets
    /\ clock = SESSION_MAX_AGE
    /\ areq.method = "GET" /\ areq.url = "/api/episodes"
    /\ areq.token.exp > clock
    /\ ares = Answer("api", 200, "")

\* The five credentials of a config.
C38_Credentials(config) ==
    <<Get(config["instapaper"], "password"), Get(config["instapaper"], "consumer_secret"),
      Get(config["translation"], "api_key"), Get(config["admin"], "password"),
      Get(config["admin"], "session_secret")>>

\* C38: a PUT of what GET /api/config returned leaves the five credentials
\* as they are; none of them is ever the mask; admin.session_secret is never
\* changed by a PUT.
C38_MaskedRoundTrip ==
    /\ [][\A saveOk \in BOOLEAN :
            PutBack(saveOk) => C38_Credentials(appConfig') = C38_Credentials(appConfig)]_vars
    /\ [](\A i \in 1..5 : C38_Credentials(appConfig)[i] # StrField(MASK))
    /\ [][Get(appConfig'["admin"], "session_secret") =
          Get(appConfig["admin"], "session_secret")]_vars

\* The pieces of a text between its line feeds; the last one is what
\* follows the last line feed.
RECURSIVE C39_Pieces(_)
C39_Pieces(s) ==
    IF indexOf(s, "\n") = 0 THEN <<s>>
    ELSE <<SubSeq(s, 1, indexOf(s, "\n") - 1)>>
         \o C39_Pieces(SubSeq(s, indexOf(s, "\n") + 1, Len(s)))

\* The lines of a text that are to be logged: the lines that end in a line
\* feed and are not blank, without their CR; then what is left, when it is
\* not blank.
C39_Lines(s) ==
    LET pieces == C39_Pieces(s)
        n == Len(pieces)
        ended == SelectSeq([i \in 1..(n - 1) |-> stripCR(pieces[i])],
                           LAMBDA l : trimLine(l) # <<>>)
        rest == trimLine(stripCR(pieces[n]))
    IN IF rest # <<>> THEN Append(ended, rest) ELSE ended

C39_Text(bytes) ==
    [i \in 1..Len(SelectSeq(bytes, LAMBDA b : b # "A9")) |->
        LET b == SelectSeq(bytes, LAMBDA c : c # "A9")[i]
        IN IF b = "C3" THEN "é" ELSE b]

\* C39: however the output of the child is cut into data events, at the end
\* of the stream the log holds the lines of the text the child wrote, each
\* once and in order.
C39_CaptureIgnoresChunking ==
    streamState = "ended" => entries = C39_Lines(C39_Text(childOutput))

\* C40: a request for the name generateFilename gave to an episode, whatever
\* the title, is never answered 400.
C40_NamesAreServable ==
    [][\A filename \in EpisodeNames, exists \in BOOLEAN :
          GetAudio(filename, exists) => audioRes' # 400]_vars

\* The audio of an episode whose title gave a slug cut at 60 characters
\* was served.
C40_Witness ==
    /\ audioRes = 200
    /\ audioReq = fname1.name
    /\ Chars(fname1.safe) = SlugChars

====
